---- MODULE Spec2Model ----
(***************************************************************************)
(* State-machine model of the min-max heap (MinMaxHeap.h / MinMaxHeap.inl) *)
(* and of the fixed-capacity priority queue built on it                    *)
(* (FixedSizePriorityQueue.h).  Node offsets are 0-based as in the source; *)
(* the element at offset i of a heap array h is h[i + 1].                  *)
(***************************************************************************)
EXTENDS Integers, Sequences, FiniteSets, TLC

(***************************************************************************)
(* Bounds of the model.                                                    *)
(***************************************************************************)
\* Elements are the integers 1..MaxVal.
MaxVal == 3
\* A stand-alone MinMaxHeap grows to at most MaxLen elements.
MaxLen == 8
\* Capacities of the bounded queue range over 0..MaxCap.
MaxCap == 4
\* Source sequences handed to the range constructor of MinMaxHeap have at
\* most MaxSrc elements, those handed to the range constructor of
\* FixedSizePriorityQueue at most MaxQueueSrc.
MaxSrc == 6
MaxQueueSrc == 4
\* At most MaxStream inserts are recorded in the stream history.
MaxStream == 6

Values == 1 .. MaxVal

\* Largest N of the heaps holding the distinct values 1 .. N.
MaxDistinct == 5

DistinctRange == 1 .. MaxDistinct

VARIABLES
    object,                 \* which class the modelled instance is
    MaxPriority,            \* template parameter of FixedSizePriorityQueue
    m_LessThanComparison,   \* the user's comparison object
    m_Heap,                 \* MinMaxHeap::m_Heap, the backing array
    m_MaximumCapacity,      \* FixedSizePriorityQueue::m_MaximumCapacity
    op,                     \* history: the last operation called
    arg,                    \* history: its argument (0 when it has none)
    thrown,                 \* history: it ended with std::out_of_range
    returned,               \* history: the value it returned (0 when none)
    ctor,                   \* history: the constructor that built the instance
    phase,                  \* history: the pattern of use so far (see below)
    inserted,               \* history: multiset of the elements offered so far
    removed                 \* history: the values deleted, in order

vars == <<object, MaxPriority, m_LessThanComparison, m_Heap, m_MaximumCapacity,
          op, arg, thrown, returned, ctor, phase, inserted, removed>>

(***************************************************************************)
(* Comparisons.                                                            *)
(***************************************************************************)
\* The user's less-than: std::less<int>, or std::greater<int> handed in as
\* the "less than" of a reversed order.
LessThanComparison(a, b) ==
    IF m_LessThanComparison = "less" THEN a < b ELSE b < a

\* The lambda both classes compose: less-than with the operands swapped.
ComposeGreaterThanFromLessThan(a, b) == LessThanComparison(b, a)

GreaterThan(Invert, a, b) ==
    IF ~Invert THEN ComposeGreaterThanFromLessThan(a, b)
    ELSE LessThanComparison(a, b)

LessThan(Invert, a, b) ==
    IF ~Invert THEN LessThanComparison(a, b)
    ELSE ComposeGreaterThanFromLessThan(a, b)

\* operator< of the element type itself (int).
BuiltinLess(a, b) == a < b

(***************************************************************************)
(* Offsets, levels and validity.                                           *)
(***************************************************************************)
\* C++ remainder: the sign follows the dividend.
CRem(a, b) == IF a >= 0 THEN a % b ELSE -((-a) % b)

GetSize(h) == Len(h)

IsEmpty(h) == Len(h) = 0

GetRootOffset == 0

IsValidNode(h, NodeOffset) == 0 <= NodeOffset /\ NodeOffset < Len(h)

GetValue(h, NodeOffset) == h[NodeOffset + 1]

GetParentOffset(ChildOffset) ==
    IF ChildOffset = GetRootOffset THEN -1 ELSE (ChildOffset - 1) \div 2

GetGrandParentOffset(GrandChildOffset) ==
    GetParentOffset(GetParentOffset(GrandChildOffset))

GetLeftChildOffset(ParentOffset) == 2 * ParentOffset + 1

GetRightChildOffset(ParentOffset) == GetLeftChildOffset(ParentOffset) + 1

IsLeftChildExist(h, ParentOffset) == GetLeftChildOffset(ParentOffset) < Len(h)

IsRightChildExist(h, ParentOffset) == GetRightChildOffset(ParentOffset) < Len(h)

IsParentExist(h, NodeOffset) == IsValidNode(h, GetParentOffset(NodeOffset))

IsGrandParentExist(h, NodeOffset) ==
    IsValidNode(h, GetGrandParentOffset(NodeOffset))

\* The generic shift loop: while(Value >>= 1) ++PowersOfTwo.
RECURSIVE BinaryLogarithmIntegerFloor(_)
BinaryLogarithmIntegerFloor(Value) ==
    IF Value \div 2 = 0 THEN 0
    ELSE 1 + BinaryLogarithmIntegerFloor(Value \div 2)

\* static_cast<unsigned>(NodeOffset).  The cast keeps every value below
\* 2^32, and every offset a model value can hold is below 2^31.
UnsignedCast(NodeOffset) == NodeOffset

GetLevel(h, NodeOffset) ==
    IF ~IsValidNode(h, NodeOffset) THEN -1
    ELSE BinaryLogarithmIntegerFloor(UnsignedCast(NodeOffset) + 1)

IsMinimumLevel(h, NodeOffset) == CRem(GetLevel(h, NodeOffset), 2) = 0

IsMaximumLevel(h, NodeOffset) == ~IsMinimumLevel(h, NodeOffset)

GetLastNodeOffset(h) == Len(h) - 1

GetLastParentOffset(h) == GetParentOffset(GetLastNodeOffset(h))

\* std::swap of two elements of the array.
Swap(h, i, j) == [h EXCEPT ![i + 1] = h[j + 1], ![j + 1] = h[i + 1]]

\* vector::pop_back.
PopBack(h) == SubSeq(h, 1, Len(h) - 1)

(***************************************************************************)
(* Results of operations that may throw std::out_of_range.                 *)
(***************************************************************************)
Throw == [thrown |-> TRUE]

Return(v) == [thrown |-> FALSE, value |-> v]

(***************************************************************************)
(* Bubble-up.                                                              *)
(***************************************************************************)
RECURSIVE BubbleUpImplementation(_, _, _)
BubbleUpImplementation(h, NodeOffset, LevelOrdering) ==
    LET InvertRelationalOperator == (LevelOrdering = "Maximum")
        g == GetGrandParentOffset(NodeOffset)
    IN  IF ~IsGrandParentExist(h, NodeOffset) THEN h
        ELSE IF LessThan(InvertRelationalOperator,
                         GetValue(h, NodeOffset), GetValue(h, g))
             THEN BubbleUpImplementation(Swap(h, NodeOffset, g), g,
                                         LevelOrdering)
             ELSE h

\* Mutant of BubbleUp: the comparison with the parent is left out.
BubbleUpSkipsParent(h, NodeOffset) ==
    IF IsMinimumLevel(h, NodeOffset)
    THEN BubbleUpImplementation(h, NodeOffset, "Minimum")
    ELSE BubbleUpImplementation(h, NodeOffset, "Maximum")

BubbleUp(h, NodeOffset) ==
    LET p == GetParentOffset(NodeOffset)
    IN  IF IsMinimumLevel(h, NodeOffset)
        THEN IF IsParentExist(h, NodeOffset)
                /\ GreaterThan(FALSE, GetValue(h, NodeOffset), GetValue(h, p))
             THEN BubbleUpImplementation(Swap(h, NodeOffset, p), p, "Maximum")
             ELSE BubbleUpImplementation(h, NodeOffset, "Minimum")
        ELSE IF IsParentExist(h, NodeOffset)
                /\ LessThan(FALSE, GetValue(h, NodeOffset), GetValue(h, p))
             THEN BubbleUpImplementation(Swap(h, NodeOffset, p), p, "Minimum")
             ELSE BubbleUpImplementation(h, NodeOffset, "Maximum")

(***************************************************************************)
(* Trickle-down.                                                           *)
(***************************************************************************)
\* The six offsets examined below a sub-tree root, in the source's order.
DescendentOffsets(SubTreeOffset) ==
    LET LeftChildOffset == GetLeftChildOffset(SubTreeOffset)
        RightChildOffset == GetRightChildOffset(SubTreeOffset)
    IN  << LeftChildOffset,
           GetLeftChildOffset(LeftChildOffset),
           GetRightChildOffset(LeftChildOffset),
           RightChildOffset,
           GetLeftChildOffset(RightChildOffset),
           GetRightChildOffset(RightChildOffset) >>

\* The loop over DescendentOffsets: k is the position reached and
\* ExtremumOffset the extremum found so far.
RECURSIVE FindExtremumOffset(_, _, _, _, _)
FindExtremumOffset(h, Invert, Offsets, k, ExtremumOffset) ==
    IF k > Len(Offsets) THEN ExtremumOffset
    ELSE IF ~IsValidNode(h, Offsets[k])
         THEN FindExtremumOffset(h, Invert, Offsets, k + 1, ExtremumOffset)
         ELSE IF LessThan(Invert, GetValue(h, Offsets[k]),
                          GetValue(h, ExtremumOffset))
              THEN FindExtremumOffset(h, Invert, Offsets, k + 1, Offsets[k])
              ELSE FindExtremumOffset(h, Invert, Offsets, k + 1,
                                      ExtremumOffset)

\* Mutant of TrickleGrandChildStep: the parent of the grandchild is not
\* repaired after the swap.
TrickleGrandChildStepNoRepair(h, SubTreeOffset, ExtremumOffset, Invert) ==
    IF LessThan(Invert, GetValue(h, ExtremumOffset), GetValue(h, SubTreeOffset))
    THEN Swap(h, ExtremumOffset, SubTreeOffset)
    ELSE h

\* The grandchild case up to, not including, the recursive call.
TrickleGrandChildStep(h, SubTreeOffset, ExtremumOffset, Invert) ==
    IF LessThan(Invert, GetValue(h, ExtremumOffset), GetValue(h, SubTreeOffset))
    THEN LET s == Swap(h, ExtremumOffset, SubTreeOffset)
             p == GetParentOffset(ExtremumOffset)
         IN  IF GreaterThan(Invert, GetValue(s, ExtremumOffset), GetValue(s, p))
             THEN Swap(s, ExtremumOffset, p)
             ELSE s
    ELSE h

\* Mutant of TrickleChildStep: the child is never exchanged with the root
\* of the sub-tree.
TrickleChildStepNoSwap(h, SubTreeOffset, ExtremumOffset, Invert) == h

\* The child case.
TrickleChildStep(h, SubTreeOffset, ExtremumOffset, Invert) ==
    IF LessThan(Invert, GetValue(h, ExtremumOffset), GetValue(h, SubTreeOffset))
    THEN Swap(h, ExtremumOffset, SubTreeOffset)
    ELSE h

RECURSIVE TrickleDownImplementation(_, _, _)
TrickleDownImplementation(h, SubTreeOffset, LevelOrdering) ==
    LET InvertRelationalOperator == (LevelOrdering = "Maximum")
        ExtremumOffset ==
            FindExtremumOffset(h, InvertRelationalOperator,
                               DescendentOffsets(SubTreeOffset), 1,
                               GetLeftChildOffset(SubTreeOffset))
    IN  IF ~IsLeftChildExist(h, SubTreeOffset) THEN h
        ELSE IF GetGrandParentOffset(ExtremumOffset) = SubTreeOffset
             THEN TrickleDownImplementation(
                      TrickleGrandChildStep(h, SubTreeOffset, ExtremumOffset,
                                            InvertRelationalOperator),
                      ExtremumOffset, LevelOrdering)
             ELSE IF GetParentOffset(ExtremumOffset) = SubTreeOffset
                  THEN TrickleChildStep(h, SubTreeOffset, ExtremumOffset,
                                        InvertRelationalOperator)
                  ELSE h

\* Mutant of TrickleDown: the level of the sub-tree's root is not looked
\* at.
TrickleDownAlwaysMinimum(h, SubTreeOffset) ==
    TrickleDownImplementation(h, SubTreeOffset, "Minimum")

TrickleDown(h, SubTreeOffset) ==
    IF IsMinimumLevel(h, SubTreeOffset)
    THEN TrickleDownImplementation(h, SubTreeOffset, "Minimum")
    ELSE TrickleDownImplementation(h, SubTreeOffset, "Maximum")

(***************************************************************************)
(* MinMaxHeap: construction, queries, insertion and deletion.              *)
(***************************************************************************)
\* Mutant of HeapifySubTrees: the loop ends before the root.
RECURSIVE HeapifySubTreesStopsAboveRoot(_, _)
HeapifySubTreesStopsAboveRoot(h, SubTreeOffset) ==
    IF SubTreeOffset <= GetRootOffset THEN h
    ELSE HeapifySubTreesStopsAboveRoot(TrickleDown(h, SubTreeOffset),
                                       SubTreeOffset - 1)

\* The constructor's loop over the reversed NumericRange: TrickleDown on
\* SubTreeOffset, then on every smaller offset down to the root.
RECURSIVE HeapifySubTrees(_, _)
HeapifySubTrees(h, SubTreeOffset) ==
    IF SubTreeOffset < GetRootOffset THEN h
    ELSE HeapifySubTrees(TrickleDown(h, SubTreeOffset), SubTreeOffset - 1)

\* Mutant of MinMaxHeapFromRange: the loop starts one sub-tree short of the
\* last parent.
MinMaxHeapFromRangeShortLoop(S) ==
    IF GetSize(S) < 2 THEN S
    ELSE HeapifySubTrees(S, GetLastParentOffset(S) - 1)

\* MinMaxHeap(First, Last, LessThanComparison) on the source sequence S.
MinMaxHeapFromRange(S) ==
    IF GetSize(S) < 2 THEN S
    ELSE HeapifySubTrees(S, GetLastParentOffset(S))

FindMinimumOffset(h) ==
    IF IsEmpty(h) THEN Throw ELSE Return(GetRootOffset)

\* Mutant of FindMaximumOffset: the right child wins when it is not less
\* than the left one.
FindMaximumOffsetRightOnTie(h) ==
    IF IsEmpty(h) THEN Throw
    ELSE IF GetSize(h) = 1 THEN Return(GetRootOffset)
    ELSE IF IsRightChildExist(h, GetRootOffset)
            /\ ~LessThan(FALSE,
                   GetValue(h, GetRightChildOffset(GetRootOffset)),
                   GetValue(h, GetLeftChildOffset(GetRootOffset)))
         THEN Return(GetRightChildOffset(GetRootOffset))
         ELSE Return(GetLeftChildOffset(GetRootOffset))

\* Mutant of FindMaximumOffset: the right child of the root is not looked at.
FindMaximumOffsetLeftOnly(h) ==
    IF IsEmpty(h) THEN Throw
    ELSE IF GetSize(h) = 1 THEN Return(GetRootOffset)
    ELSE Return(GetLeftChildOffset(GetRootOffset))

FindMaximumOffset(h) ==
    IF IsEmpty(h) THEN Throw
    ELSE IF GetSize(h) = 1 THEN Return(GetRootOffset)
    ELSE IF IsRightChildExist(h, GetRootOffset)
            /\ GreaterThan(FALSE,
                   GetValue(h, GetRightChildOffset(GetRootOffset)),
                   GetValue(h, GetLeftChildOffset(GetRootOffset)))
         THEN Return(GetRightChildOffset(GetRootOffset))
         ELSE Return(GetLeftChildOffset(GetRootOffset))

FindMinimum(h) ==
    LET o == FindMinimumOffset(h)
    IN  IF o.thrown THEN Throw ELSE Return(GetValue(h, o.value))

FindMaximum(h) ==
    LET o == FindMaximumOffset(h)
    IN  IF o.thrown THEN Throw ELSE Return(GetValue(h, o.value))

\* Mutant of HeapEmplace: the element is put in front of the array, and
\* the last node is bubbled up.
HeapEmplaceAtFront(h, Element) ==
    BubbleUp(<<Element>> \o h, GetLastNodeOffset(<<Element>> \o h))

\* Mutant of HeapEmplace: the new leaf is not bubbled up.
HeapEmplaceNoBubbleUp(h, Element) == Append(h, Element)

\* MinMaxHeap::Emplace / Insert: never throws.
HeapEmplace(h, Element) ==
    LET a == Append(h, Element)
    IN  BubbleUp(a, GetLastNodeOffset(a))

\* Mutant of DeleteMaximum: the last leaf is dropped without being moved
\* over the maximum.
DeleteMaximumDropsLast(h) ==
    LET o == FindMaximumOffset(h)
    IN  IF o.thrown THEN [thrown |-> TRUE, heap |-> h]
        ELSE [thrown |-> FALSE, heap |-> PopBack(h)]

\* Mutant of DeleteMaximum: the order below the replaced maximum is not
\* restored.
DeleteMaximumNoTrickle(h) ==
    LET o == FindMaximumOffset(h)
    IN  IF o.thrown THEN [thrown |-> TRUE, heap |-> h]
        ELSE LET moved == [h EXCEPT ![o.value + 1] =
                                        GetValue(h, GetLastNodeOffset(h))]
             IN  [thrown |-> FALSE, heap |-> PopBack(moved)]

\* Mutant of DeleteMaximum: pop_back comes before the move, so that a
\* maximum in the last slot is assigned through an offset that is no longer
\* valid and GetValue throws.
DeleteMaximumPopsFirst(h) ==
    LET o == FindMaximumOffset(h)
    IN  IF o.thrown THEN [thrown |-> TRUE, heap |-> h]
        ELSE IF o.value = GetLastNodeOffset(h)
             THEN [thrown |-> TRUE, heap |-> PopBack(h)]
             ELSE LET moved == [h EXCEPT ![o.value + 1] =
                                             GetValue(h, GetLastNodeOffset(h))]
                  IN  [thrown |-> FALSE,
                       heap |-> TrickleDown(PopBack(moved), o.value)]

\* Each deletion yields the new array, or the old one when it throws.
DeleteMaximum(h) ==
    LET o == FindMaximumOffset(h)
    IN  IF o.thrown THEN [thrown |-> TRUE, heap |-> h]
        ELSE LET moved == [h EXCEPT ![o.value + 1] =
                                        GetValue(h, GetLastNodeOffset(h))]
             IN  [thrown |-> FALSE,
                  heap |-> TrickleDown(PopBack(moved), o.value)]

\* Mutant of DeleteMinimum: an empty heap is silently left alone.
DeleteMinimumIgnoresEmpty(h) ==
    IF IsEmpty(h) THEN [thrown |-> FALSE, heap |-> h]
    ELSE LET moved == [h EXCEPT ![1] = h[Len(h)]]
         IN  [thrown |-> FALSE,
              heap |-> TrickleDown(PopBack(moved), GetRootOffset)]

DeleteMinimum(h) ==
    IF IsEmpty(h) THEN [thrown |-> TRUE, heap |-> h]
    ELSE LET moved == [h EXCEPT ![1] = h[Len(h)]]
         IN  [thrown |-> FALSE,
              heap |-> TrickleDown(PopBack(moved), GetRootOffset)]

(***************************************************************************)
(* FixedSizePriorityQueue.                                                 *)
(***************************************************************************)
\* Mutant of QueueComposeGreaterThanFromLessThan: the operands are not
\* swapped.
QueueComposeNotSwapped(a, b) == LessThanComparison(a, b)

\* The queue's own greater-than lambda, composed from its copy of the
\* user's less-than.
QueueComposeGreaterThanFromLessThan(a, b) == LessThanComparison(b, a)

\* Mutant of Emplace: the branches of the two priorities are exchanged.
EmplacePolarityExchanged(h, MaximumCapacity, IsMaxPriority, Element) ==
    IF GetSize(h) < MaximumCapacity
    THEN [thrown |-> FALSE, heap |-> HeapEmplace(h, Element)]
    ELSE IF ~IsMaxPriority
         THEN LET w == FindMinimum(h)
              IN  IF w.thrown THEN [thrown |-> TRUE, heap |-> h]
                  ELSE IF QueueComposeGreaterThanFromLessThan(Element, w.value)
                       THEN DeleteMinimum(HeapEmplace(h, Element))
                       ELSE [thrown |-> FALSE, heap |-> h]
         ELSE LET w == FindMaximum(h)
              IN  IF w.thrown THEN [thrown |-> TRUE, heap |-> h]
                  ELSE IF BuiltinLess(Element, w.value)
                       THEN DeleteMaximum(HeapEmplace(h, Element))
                       ELSE [thrown |-> FALSE, heap |-> h]

\* Mutant of Emplace: below capacity too, an element is let in only when
\* it is better than the worst one held.
EmplaceComparesFirst(h, MaximumCapacity, IsMaxPriority, Element) ==
    IF IsEmpty(h)
    THEN IF GetSize(h) < MaximumCapacity
         THEN [thrown |-> FALSE, heap |-> HeapEmplace(h, Element)]
         ELSE [thrown |-> TRUE, heap |-> h]
    ELSE LET w == IF IsMaxPriority THEN FindMinimum(h) ELSE FindMaximum(h)
             Better == IF IsMaxPriority
                       THEN QueueComposeGreaterThanFromLessThan(Element, w.value)
                       ELSE BuiltinLess(Element, w.value)
         IN  IF ~Better THEN [thrown |-> FALSE, heap |-> h]
             ELSE IF GetSize(h) < MaximumCapacity
                  THEN [thrown |-> FALSE, heap |-> HeapEmplace(h, Element)]
                  ELSE IF IsMaxPriority
                       THEN DeleteMinimum(HeapEmplace(h, Element))
                       ELSE DeleteMaximum(HeapEmplace(h, Element))

\* Mutant of Emplace: the capacity test counts the new element in.
EmplaceOneShort(h, MaximumCapacity, IsMaxPriority, Element) ==
    IF GetSize(h) + 1 < MaximumCapacity
    THEN [thrown |-> FALSE, heap |-> HeapEmplace(h, Element)]
    ELSE IF IsMaxPriority
         THEN LET w == FindMinimum(h)
              IN  IF w.thrown THEN [thrown |-> TRUE, heap |-> h]
                  ELSE IF QueueComposeGreaterThanFromLessThan(Element, w.value)
                       THEN DeleteMinimum(HeapEmplace(h, Element))
                       ELSE [thrown |-> FALSE, heap |-> h]
         ELSE LET w == FindMaximum(h)
              IN  IF w.thrown THEN [thrown |-> TRUE, heap |-> h]
                  ELSE IF BuiltinLess(Element, w.value)
                       THEN DeleteMaximum(HeapEmplace(h, Element))
                       ELSE [thrown |-> FALSE, heap |-> h]

\* Mutant of Emplace: at capacity the new element is inserted and nothing
\* is removed.
EmplaceNoEviction(h, MaximumCapacity, IsMaxPriority, Element) ==
    IF GetSize(h) < MaximumCapacity
    THEN [thrown |-> FALSE, heap |-> HeapEmplace(h, Element)]
    ELSE IF IsMaxPriority
         THEN LET w == FindMinimum(h)
              IN  IF w.thrown THEN [thrown |-> TRUE, heap |-> h]
                  ELSE IF LessThanComparison(w.value, Element)
                       THEN [thrown |-> FALSE, heap |-> HeapEmplace(h, Element)]
                       ELSE [thrown |-> FALSE, heap |-> h]
         ELSE LET w == FindMaximum(h)
              IN  IF w.thrown THEN [thrown |-> TRUE, heap |-> h]
                  ELSE IF BuiltinLess(Element, w.value)
                       THEN [thrown |-> FALSE, heap |-> HeapEmplace(h, Element)]
                       ELSE [thrown |-> FALSE, heap |-> h]

\* Mutant of Emplace: the capacity test is <= instead of <.
EmplaceOffByOne(h, MaximumCapacity, IsMaxPriority, Element) ==
    IF GetSize(h) <= MaximumCapacity
    THEN [thrown |-> FALSE, heap |-> HeapEmplace(h, Element)]
    ELSE IF IsMaxPriority
         THEN LET w == FindMinimum(h)
              IN  IF w.thrown THEN [thrown |-> TRUE, heap |-> h]
                  ELSE IF LessThanComparison(w.value, Element)
                       THEN DeleteMinimum(HeapEmplace(h, Element))
                       ELSE [thrown |-> FALSE, heap |-> h]
         ELSE LET w == FindMaximum(h)
              IN  IF w.thrown THEN [thrown |-> TRUE, heap |-> h]
                  ELSE IF BuiltinLess(Element, w.value)
                       THEN DeleteMaximum(HeapEmplace(h, Element))
                       ELSE [thrown |-> FALSE, heap |-> h]

\* FixedSizePriorityQueue::Emplace / Insert on the embedded heap h.
Emplace(h, MaximumCapacity, IsMaxPriority, Element) ==
    IF GetSize(h) < MaximumCapacity
    THEN [thrown |-> FALSE, heap |-> HeapEmplace(h, Element)]
    ELSE IF IsMaxPriority
         THEN LET w == FindMinimum(h)
              IN  IF w.thrown THEN [thrown |-> TRUE, heap |-> h]
                  ELSE IF QueueComposeGreaterThanFromLessThan(Element, w.value)
                       THEN DeleteMinimum(HeapEmplace(h, Element))
                       ELSE [thrown |-> FALSE, heap |-> h]
         ELSE LET w == FindMaximum(h)
              IN  IF w.thrown THEN [thrown |-> TRUE, heap |-> h]
                  ELSE IF BuiltinLess(Element, w.value)
                       THEN DeleteMaximum(HeapEmplace(h, Element))
                       ELSE [thrown |-> FALSE, heap |-> h]

\* Mutant of TrimToCapacity: the best elements are deleted instead of the
\* worst.
RECURSIVE TrimToCapacityFromBestEnd(_, _, _)
TrimToCapacityFromBestEnd(h, MaximumCapacity, IsMaxPriority) ==
    IF GetSize(h) > MaximumCapacity
    THEN TrimToCapacityFromBestEnd(IF IsMaxPriority THEN DeleteMaximum(h).heap
                                   ELSE DeleteMinimum(h).heap,
                                   MaximumCapacity, IsMaxPriority)
    ELSE h

\* Mutant of TrimToCapacity: the loop also runs when the size equals the
\* capacity.
RECURSIVE TrimToCapacityOneMore(_, _, _)
TrimToCapacityOneMore(h, MaximumCapacity, IsMaxPriority) ==
    IF GetSize(h) >= MaximumCapacity /\ ~IsEmpty(h)
    THEN TrimToCapacityOneMore(IF IsMaxPriority THEN DeleteMinimum(h).heap
                               ELSE DeleteMaximum(h).heap,
                               MaximumCapacity, IsMaxPriority)
    ELSE h

\* Mutant of TrimToCapacity: one element is dropped, however many are over.
TrimToCapacityOnce(h, MaximumCapacity, IsMaxPriority) ==
    IF GetSize(h) > MaximumCapacity
    THEN IF IsMaxPriority THEN DeleteMinimum(h).heap ELSE DeleteMaximum(h).heap
    ELSE h

\* The trimming loop of SetMaximumCapacity.
RECURSIVE TrimToCapacity(_, _, _)
TrimToCapacity(h, MaximumCapacity, IsMaxPriority) ==
    IF GetSize(h) > MaximumCapacity
    THEN TrimToCapacity(IF IsMaxPriority THEN DeleteMinimum(h).heap
                        ELSE DeleteMaximum(h).heap,
                        MaximumCapacity, IsMaxPriority)
    ELSE h

\* The elements the trimming loop deletes, in the order it deletes them.
RECURSIVE TrimmedElements(_, _, _)
TrimmedElements(h, MaximumCapacity, IsMaxPriority) ==
    IF GetSize(h) > MaximumCapacity
    THEN <<(IF IsMaxPriority THEN FindMinimum(h).value
            ELSE FindMaximum(h).value)>>
         \o TrimmedElements(IF IsMaxPriority THEN DeleteMinimum(h).heap
                            ELSE DeleteMaximum(h).heap,
                            MaximumCapacity, IsMaxPriority)
    ELSE << >>

\* The range constructor's loop: Insert of S[k], S[k+1], ... until the end
\* of the source or the first exception.
RECURSIVE InsertRemaining(_, _, _, _, _)
InsertRemaining(h, S, k, MaximumCapacity, IsMaxPriority) ==
    IF k > Len(S) THEN [thrown |-> FALSE, heap |-> h]
    ELSE LET r == Emplace(h, MaximumCapacity, IsMaxPriority, S[k])
         IN  IF r.thrown THEN r
             ELSE InsertRemaining(r.heap, S, k + 1, MaximumCapacity,
                                  IsMaxPriority)

\* FixedSizePriorityQueue(First, Last, MaximumCapacity, LessThanCompare).
QueueFromRange(S, MaximumCapacity, IsMaxPriority) ==
    LET InitialCopyCount ==
            IF Len(S) < MaximumCapacity THEN Len(S) ELSE MaximumCapacity
    IN  InsertRemaining(MinMaxHeapFromRange(SubSeq(S, 1, InitialCopyCount)),
                        S, InitialCopyCount + 1, MaximumCapacity,
                        IsMaxPriority)

(***************************************************************************)
(* Multisets of elements, as functions from Values to counts.              *)
(***************************************************************************)
NoElements == [v \in Values |-> 0]

Occurrences(s, v) == Cardinality({i \in DOMAIN s : s[i] = v})

MultisetOf(s) == [v \in Values |-> Occurrences(s, v)]

AddElement(B, v) == [B EXCEPT ![v] = @ + 1]

RECURSIVE Total(_, _)
Total(B, n) == IF n = 0 THEN 0 ELSE B[n] + Total(B, n - 1)

Size(B) == Total(B, MaxVal)

\* All sequences over Values of length at most n.
SeqsUpTo(n) == UNION {[1 .. k -> Values] : k \in 0 .. n}

(***************************************************************************)
(* The state machine.  One instance is constructed by Init; every action   *)
(* is one call of a public operation on it.  The history variables record  *)
(* the last call and, while the usage stays in one of the patterns the     *)
(* properties speak about, the elements offered and those deleted:         *)
(*   phase = "fill"       only inserts since an empty construction, or     *)
(*                        nothing since a construction from a range;       *)
(*   phase = "drainMin"   then only deletions of the minimum;              *)
(*   phase = "drainMax"   then only deletions of the maximum;              *)
(*   phase = "alternate"  then deletions of minimum, maximum, minimum ...; *)
(*   phase = "enlarged"   the capacity of a full queue was raised above    *)
(*                        its size, and since then there were only inserts *)
(*                        that met a queue below its capacity (inserted    *)
(*                        counts them);                                    *)
(*   phase = "mixed"      anything else (ctor, inserted and removed are    *)
(*                        then dropped; after SetMaximumCapacity removed   *)
(*                        holds the elements it trimmed).                  *)
(***************************************************************************)
\* The program before it constructs the instance: the class, its template
\* parameter and the comparison object are chosen, and nothing is stored.
Init ==
    /\ object \in {"MinMaxHeap", "FixedSizePriorityQueue"}
    /\ MaxPriority \in (IF object = "MinMaxHeap" THEN {FALSE} ELSE BOOLEAN)
    /\ m_LessThanComparison \in {"less", "greater"}
    /\ m_Heap = << >>
    /\ m_MaximumCapacity = 0
    /\ op = "none"
    /\ arg = 0
    /\ thrown = FALSE
    /\ returned = 0
    /\ ctor = "none"
    /\ phase = "fill"
    /\ inserted = NoElements
    /\ removed = << >>

\* The instance exists: a constructor ran and did not throw.
Constructed == op # "none" /\ ~(op = "construct" /\ thrown)

Instantiation == <<object, MaxPriority, m_LessThanComparison>>

\* MinMaxHeap(LessThanCompare).
HeapConstruct ==
    /\ object = "MinMaxHeap"
    /\ op = "none"
    /\ m_Heap' = << >>
    /\ op' = "construct" /\ ctor' = "empty" /\ arg' = << >>
    /\ UNCHANGED <<Instantiation, m_MaximumCapacity, thrown, returned, phase,
                   inserted, removed>>

\* MinMaxHeap(First, Last, LessThanComparison) on a source S.
HeapConstructFromRange ==
    /\ object = "MinMaxHeap"
    /\ op = "none"
    /\ \E S \in SeqsUpTo(MaxSrc) :
          /\ m_Heap' = MinMaxHeapFromRange(S)
          /\ arg' = S
          /\ inserted' = MultisetOf(S)
    /\ op' = "construct" /\ ctor' = "range"
    /\ UNCHANGED <<Instantiation, m_MaximumCapacity, thrown, returned, phase,
                   removed>>

\* FixedSizePriorityQueue(MaximumCapacity, LessThanCompare).
QueueConstruct ==
    /\ object = "FixedSizePriorityQueue"
    /\ op = "none"
    /\ m_MaximumCapacity' \in 0 .. MaxCap
    /\ m_Heap' = << >>
    /\ op' = "construct" /\ ctor' = "empty" /\ arg' = << >>
    /\ UNCHANGED <<Instantiation, thrown, returned, phase, inserted, removed>>

\* FixedSizePriorityQueue(First, Last, MaximumCapacity, LessThanCompare) on
\* a source S.  When an Insert of the constructor throws, no instance comes
\* to exist.
QueueConstructFromRange ==
    /\ object = "FixedSizePriorityQueue"
    /\ op = "none"
    /\ \E S \in SeqsUpTo(MaxQueueSrc), MaximumCapacity \in 0 .. MaxCap :
          LET r == QueueFromRange(S, MaximumCapacity, MaxPriority)
          IN  /\ thrown' = r.thrown
              /\ m_Heap' = IF r.thrown THEN << >> ELSE r.heap
              /\ m_MaximumCapacity' = IF r.thrown THEN 0 ELSE MaximumCapacity
              /\ arg' = S
              /\ inserted' = MultisetOf(S)
    /\ op' = "construct" /\ ctor' = "range"
    /\ UNCHANGED <<Instantiation, returned, phase, removed>>

\* History after an insert of x.  The stream of inserts is followed from an
\* empty construction only.
RecordInsert(x) ==
    IF \/ phase = "fill" /\ ctor = "empty" /\ Size(inserted) < MaxStream
       \/ phase = "enlarged" /\ GetSize(m_Heap) < m_MaximumCapacity
    THEN /\ inserted' = AddElement(inserted, x)
         /\ UNCHANGED <<phase, ctor, removed>>
    ELSE /\ phase' = "mixed"
         /\ ctor' = "any"
         /\ inserted' = NoElements
         /\ removed' = << >>

\* The phase a deletion of the given kind leads to.
PhaseAfterDelete(kind) ==
    IF phase = "fill" THEN (IF kind = "min" THEN "drainMin" ELSE "drainMax")
    ELSE IF phase = "drainMin" /\ kind = "min" THEN "drainMin"
    ELSE IF phase = "drainMax" /\ kind = "max" THEN "drainMax"
    ELSE IF phase = "drainMin" /\ kind = "max" /\ Len(removed) = 1
         THEN "alternate"
    ELSE IF phase = "alternate"
            /\ kind = (IF Len(removed) % 2 = 0 THEN "min" ELSE "max")
         THEN "alternate"
    ELSE "mixed"

\* History after a deletion; value is what the matching find returned just
\* before it.
RecordDelete(kind, value, threw) ==
    IF threw THEN UNCHANGED <<phase, ctor, inserted, removed>>
    ELSE IF PhaseAfterDelete(kind) # "mixed"
         THEN /\ phase' = PhaseAfterDelete(kind)
              /\ removed' = Append(removed, value)
              /\ UNCHANGED <<ctor, inserted>>
         ELSE /\ phase' = "mixed"
              /\ ctor' = "any"
              /\ inserted' = NoElements
              /\ removed' = << >>

HeapInsert(x) ==
    /\ object = "MinMaxHeap"
    /\ Constructed
    /\ GetSize(m_Heap) < MaxLen
    /\ m_Heap' = HeapEmplace(m_Heap, x)
    /\ op' = "Insert" /\ arg' = x /\ thrown' = FALSE /\ returned' = 0
    /\ RecordInsert(x)
    /\ UNCHANGED <<Instantiation, m_MaximumCapacity>>

HeapDeleteMinimum ==
    /\ object = "MinMaxHeap"
    /\ Constructed
    /\ LET r == DeleteMinimum(m_Heap)
       IN  /\ m_Heap' = r.heap
           /\ thrown' = r.thrown
           /\ RecordDelete("min",
                  IF IsEmpty(m_Heap) THEN 0 ELSE FindMinimum(m_Heap).value, r.thrown)
    /\ op' = "DeleteMinimum" /\ arg' = 0 /\ returned' = 0
    /\ UNCHANGED <<Instantiation, m_MaximumCapacity>>

HeapDeleteMaximum ==
    /\ object = "MinMaxHeap"
    /\ Constructed
    /\ LET r == DeleteMaximum(m_Heap)
       IN  /\ m_Heap' = r.heap
           /\ thrown' = r.thrown
           /\ RecordDelete("max",
                  IF IsEmpty(m_Heap) THEN 0 ELSE FindMaximum(m_Heap).value, r.thrown)
    /\ op' = "DeleteMaximum" /\ arg' = 0 /\ returned' = 0
    /\ UNCHANGED <<Instantiation, m_MaximumCapacity>>

\* Mutant of HeapFindMinimum: the minimum is taken out as it is returned.
HeapFindMinimumTakes ==
    /\ object = "MinMaxHeap"
    /\ Constructed
    /\ LET r == FindMinimum(m_Heap)
       IN  /\ thrown' = r.thrown
           /\ returned' = IF r.thrown THEN 0 ELSE r.value
           /\ m_Heap' = DeleteMinimum(m_Heap).heap
    /\ op' = "FindMinimum" /\ arg' = 0
    /\ UNCHANGED <<Instantiation, m_MaximumCapacity, ctor, phase,
                   inserted, removed>>

HeapFindMinimum ==
    /\ object = "MinMaxHeap"
    /\ Constructed
    /\ LET r == FindMinimum(m_Heap)
       IN  /\ thrown' = r.thrown
           /\ returned' = IF r.thrown THEN 0 ELSE r.value
    /\ op' = "FindMinimum" /\ arg' = 0
    /\ UNCHANGED <<Instantiation, m_Heap, m_MaximumCapacity, ctor, phase,
                   inserted, removed>>

HeapFindMaximum ==
    /\ object = "MinMaxHeap"
    /\ Constructed
    /\ LET r == FindMaximum(m_Heap)
       IN  /\ thrown' = r.thrown
           /\ returned' = IF r.thrown THEN 0 ELSE r.value
    /\ op' = "FindMaximum" /\ arg' = 0
    /\ UNCHANGED <<Instantiation, m_Heap, m_MaximumCapacity, ctor, phase,
                   inserted, removed>>

QueueInsert(x) ==
    /\ object = "FixedSizePriorityQueue"
    /\ Constructed
    /\ LET r == Emplace(m_Heap, m_MaximumCapacity, MaxPriority, x)
       IN  /\ m_Heap' = r.heap
           /\ thrown' = r.thrown
    /\ op' = "Insert" /\ arg' = x /\ returned' = 0
    /\ RecordInsert(x)
    /\ UNCHANGED <<Instantiation, m_MaximumCapacity>>

\* Mutant of QueuePeek: the extremum of the other end is returned.
QueuePeekOtherEnd ==
    /\ object = "FixedSizePriorityQueue"
    /\ Constructed
    /\ LET r == IF MaxPriority THEN FindMinimum(m_Heap)
                ELSE FindMaximum(m_Heap)
       IN  /\ thrown' = r.thrown
           /\ returned' = IF r.thrown THEN 0 ELSE r.value
    /\ op' = "Peek" /\ arg' = 0
    /\ UNCHANGED <<Instantiation, m_Heap, m_MaximumCapacity, ctor, phase,
                   inserted, removed>>

\* PeekMaximum of a max priority queue, PeekMinimum of a min priority queue.
QueuePeek ==
    /\ object = "FixedSizePriorityQueue"
    /\ Constructed
    /\ LET r == IF MaxPriority THEN FindMaximum(m_Heap)
                ELSE FindMinimum(m_Heap)
       IN  /\ thrown' = r.thrown
           /\ returned' = IF r.thrown THEN 0 ELSE r.value
    /\ op' = "Peek" /\ arg' = 0
    /\ UNCHANGED <<Instantiation, m_Heap, m_MaximumCapacity, ctor, phase,
                   inserted, removed>>

\* Mutant of QueuePop: an empty queue is silently left alone, and a pop
\* that finds one element leaves it.
QueuePopKeepsLast ==
    /\ object = "FixedSizePriorityQueue"
    /\ Constructed
    /\ LET r == IF GetSize(m_Heap) <= 1 THEN [thrown |-> FALSE, heap |-> m_Heap]
                ELSE IF MaxPriority THEN DeleteMaximum(m_Heap)
                ELSE DeleteMinimum(m_Heap)
       IN  /\ m_Heap' = r.heap
           /\ thrown' = r.thrown
    /\ op' = "Pop" /\ arg' = 0 /\ returned' = 0
    /\ phase' = "mixed" /\ ctor' = "any"
    /\ inserted' = NoElements /\ removed' = << >>
    /\ UNCHANGED <<Instantiation, m_MaximumCapacity>>

\* Mutant of QueuePop: the extremum of the other end is deleted.
QueuePopOtherEnd ==
    /\ object = "FixedSizePriorityQueue"
    /\ Constructed
    /\ LET r == IF MaxPriority THEN DeleteMinimum(m_Heap)
                ELSE DeleteMaximum(m_Heap)
       IN  /\ m_Heap' = r.heap
           /\ thrown' = r.thrown
    /\ op' = "Pop" /\ arg' = 0 /\ returned' = 0
    /\ phase' = "mixed" /\ ctor' = "any"
    /\ inserted' = NoElements /\ removed' = << >>
    /\ UNCHANGED <<Instantiation, m_MaximumCapacity>>

\* PopMaximum of a max priority queue, PopMinimum of a min priority queue.
\* The history of a queue covers its inserts only and is dropped here.
QueuePop ==
    /\ object = "FixedSizePriorityQueue"
    /\ Constructed
    /\ LET r == IF MaxPriority THEN DeleteMaximum(m_Heap)
                ELSE DeleteMinimum(m_Heap)
       IN  /\ m_Heap' = r.heap
           /\ thrown' = r.thrown
    /\ op' = "Pop" /\ arg' = 0 /\ returned' = 0
    /\ phase' = "mixed" /\ ctor' = "any"
    /\ inserted' = NoElements /\ removed' = << >>
    /\ UNCHANGED <<Instantiation, m_MaximumCapacity>>

QueueSetMaximumCapacity(NewCapacity) ==
    /\ object = "FixedSizePriorityQueue"
    /\ Constructed
    /\ m_MaximumCapacity' = NewCapacity
    /\ m_Heap' = TrimToCapacity(m_Heap, NewCapacity, MaxPriority)
    /\ op' = "SetMaximumCapacity" /\ arg' = NewCapacity
    /\ thrown' = FALSE /\ returned' = 0
    /\ phase' = IF GetSize(m_Heap) = m_MaximumCapacity
                    /\ NewCapacity > GetSize(m_Heap)
                 THEN "enlarged" ELSE "mixed"
    /\ ctor' = "any"
    /\ inserted' = NoElements
    /\ removed' = TrimmedElements(m_Heap, NewCapacity, MaxPriority)
    /\ UNCHANGED Instantiation

Next ==
    \/ HeapConstruct
    \/ HeapConstructFromRange
    \/ QueueConstruct
    \/ QueueConstructFromRange
    \/ \E x \in Values : HeapInsert(x)
    \/ HeapDeleteMinimum
    \/ HeapDeleteMaximum
    \/ HeapFindMinimum
    \/ HeapFindMaximum
    \/ \E x \in Values : QueueInsert(x)
    \/ QueuePeek
    \/ QueuePop
    \/ \E k \in 0 .. MaxCap : QueueSetMaximumCapacity(k)

Spec == Init /\ [][Next]_vars

(***************************************************************************)
(* A MinMaxHeap holding the distinct values 1 .. N, built from a range or  *)
(* by inserts, and then emptied from either end.  Here inserted counts     *)
(* the elements over DistinctRange.                                        *)
(***************************************************************************)
Arrangements(n) ==
    {S \in [1 .. n -> 1 .. n] : \A i, j \in 1 .. n : S[i] = S[j] => i = j}

DistinctMultisetOf(s) == [v \in DistinctRange |-> Occurrences(s, v)]

DistinctInit ==
    /\ object = "MinMaxHeap"
    /\ MaxPriority = FALSE
    /\ m_LessThanComparison \in {"less", "greater"}
    /\ m_Heap = << >>
    /\ m_MaximumCapacity = 0
    /\ op = "none"
    /\ arg = 0
    /\ thrown = FALSE
    /\ returned = 0
    /\ ctor = "none"
    /\ phase = "fill"
    /\ inserted = DistinctMultisetOf(<< >>)
    /\ removed = << >>

\* MinMaxHeap(First, Last, LessThanComparison) on an arrangement of 1 .. n.
HeapConstructFromPermutation ==
    /\ object = "MinMaxHeap"
    /\ op = "none"
    /\ \E n \in 0 .. MaxDistinct : \E S \in Arrangements(n) :
          /\ m_Heap' = MinMaxHeapFromRange(S)
          /\ arg' = S
          /\ inserted' = DistinctMultisetOf(S)
    /\ op' = "construct" /\ ctor' = "range"
    /\ UNCHANGED <<Instantiation, m_MaximumCapacity, thrown, returned, phase,
                   removed>>

\* Insert of a value the heap does not hold yet.
HeapInsertDistinct(x) ==
    /\ object = "MinMaxHeap"
    /\ Constructed
    /\ \A i \in DOMAIN m_Heap : m_Heap[i] # x
    /\ m_Heap' = HeapEmplace(m_Heap, x)
    /\ op' = "Insert" /\ arg' = x /\ thrown' = FALSE /\ returned' = 0
    /\ IF phase = "fill"
       THEN /\ inserted' = AddElement(inserted, x)
            /\ UNCHANGED <<phase, ctor, removed>>
       ELSE /\ phase' = "mixed"
            /\ ctor' = "any"
            /\ inserted' = NoElements
            /\ removed' = << >>
    /\ UNCHANGED <<Instantiation, m_MaximumCapacity>>

DistinctNext ==
    \/ HeapConstruct
    \/ HeapConstructFromPermutation
    \/ \E x \in DistinctRange : HeapInsertDistinct(x)
    \/ HeapDeleteMinimum
    \/ HeapDeleteMaximum

DistinctSpec == DistinctInit /\ [][DistinctNext]_vars

(***************************************************************************)
(* FixedSizePriorityQueue::Emplace statement by statement.  Here op also   *)
(* tells where inside Emplace the call stands:                             *)
(*   "Emplace"          Element is constructed, nothing is compared yet;   *)
(*   "EmplaceAdmitted"  at capacity, the comparison let Element in;        *)
(*   "EmplaceInserted"  m_MinMaxHeap.Insert has returned;                  *)
(*   "Insert"           the call has returned or thrown.                   *)
(***************************************************************************)
InsideEmplace == op \in {"Emplace", "EmplaceAdmitted", "EmplaceInserted"}

EmplaceHistory ==
    /\ phase' = "mixed" /\ ctor' = "any"
    /\ inserted' = NoElements /\ removed' = << >>

\* Type Element(std::forward<ArgumentTypes>(Arguments)...).
EmplaceEnter(x) ==
    /\ object = "FixedSizePriorityQueue"
    /\ Constructed /\ ~InsideEmplace
    /\ op' = "Emplace" /\ arg' = x /\ thrown' = FALSE /\ returned' = 0
    /\ EmplaceHistory
    /\ UNCHANGED <<Instantiation, m_Heap, m_MaximumCapacity>>

\* if(GetSize() < m_MaximumCapacity) Insert(std::move(Element)).
EmplaceBelowCapacity ==
    /\ op = "Emplace"
    /\ GetSize(m_Heap) < m_MaximumCapacity
    /\ m_Heap' = HeapEmplace(m_Heap, arg)
    /\ op' = "Insert"
    /\ UNCHANGED <<Instantiation, m_MaximumCapacity, arg, thrown, returned,
                   ctor, phase, inserted, removed>>

\* The comparison of the else branch against FindMinimum() or FindMaximum().
EmplaceCompare ==
    /\ op = "Emplace"
    /\ ~(GetSize(m_Heap) < m_MaximumCapacity)
    /\ LET w == IF MaxPriority THEN FindMinimum(m_Heap)
                ELSE FindMaximum(m_Heap)
       IN  /\ thrown' = w.thrown
           /\ op' = IF w.thrown THEN "Insert"
                    ELSE IF (IF MaxPriority
                             THEN QueueComposeGreaterThanFromLessThan(arg, w.value)
                             ELSE BuiltinLess(arg, w.value))
                         THEN "EmplaceAdmitted"
                         ELSE "Insert"
    /\ UNCHANGED <<Instantiation, m_Heap, m_MaximumCapacity, arg, returned,
                   ctor, phase, inserted, removed>>

\* m_MinMaxHeap.Insert(std::move(Element)) of the else branch.
EmplaceInsertAtCapacity ==
    /\ op = "EmplaceAdmitted"
    /\ m_Heap' = HeapEmplace(m_Heap, arg)
    /\ op' = "EmplaceInserted"
    /\ UNCHANGED <<Instantiation, m_MaximumCapacity, arg, thrown, returned,
                   ctor, phase, inserted, removed>>

\* m_MinMaxHeap.DeleteMinimum() or DeleteMaximum() of the else branch.
EmplaceDeleteWorst ==
    /\ op = "EmplaceInserted"
    /\ LET r == IF MaxPriority THEN DeleteMinimum(m_Heap)
                ELSE DeleteMaximum(m_Heap)
       IN  /\ m_Heap' = r.heap
           /\ thrown' = r.thrown
    /\ op' = "Insert"
    /\ UNCHANGED <<Instantiation, m_MaximumCapacity, arg, returned,
                   ctor, phase, inserted, removed>>

EmplaceNext ==
    \/ QueueConstruct
    \/ QueueConstructFromRange
    \/ \E x \in Values : EmplaceEnter(x)
    \/ EmplaceBelowCapacity
    \/ EmplaceCompare
    \/ EmplaceInsertAtCapacity
    \/ EmplaceDeleteWorst

EmplaceSpec == Init /\ [][EmplaceNext]_vars

(***************************************************************************)
(* Vocabulary of the properties.  None of it is used by the model above.   *)
(***************************************************************************)
\* a <= b in the user's order.
Leq(a, b) == ~LessThanComparison(b, a)

\* Depth of offset i in the complete binary tree, by walking to the root.
RECURSIVE Depth(_)
Depth(i) == IF i = 0 THEN 0 ELSE 1 + Depth((i - 1) \div 2)

\* d is a proper descendant of n.
RECURSIVE IsDescendant(_, _)
IsDescendant(d, n) ==
    IF d <= n THEN FALSE
    ELSE LET p == (d - 1) \div 2 IN p = n \/ IsDescendant(p, n)

Offsets(h) == 0 .. Len(h) - 1

\* The min-max ordering invariant of the array h.
MinMaxOrdered(h) ==
    \A n \in Offsets(h) : \A d \in Offsets(h) :
        IsDescendant(d, n) =>
            IF Depth(n) % 2 = 0 THEN Leq(h[n + 1], h[d + 1])
            ELSE Leq(h[d + 1], h[n + 1])

DistinctValues(h) == {h[i] : i \in DOMAIN h}

\* The k smallest (largest) elements, in the user's order, of multiset B.
RECURSIVE Smallest(_, _)
Smallest(B, k) ==
    IF k = 0 \/ Size(B) = 0 THEN NoElements
    ELSE LET e == CHOOSE v \in Values :
                      /\ B[v] > 0
                      /\ \A w \in Values : B[w] > 0 => Leq(v, w)
         IN  AddElement(Smallest([B EXCEPT ![e] = @ - 1], k - 1), e)

RECURSIVE Largest(_, _)
Largest(B, k) ==
    IF k = 0 \/ Size(B) = 0 THEN NoElements
    ELSE LET e == CHOOSE v \in Values :
                      /\ B[v] > 0
                      /\ \A w \in Values : B[w] > 0 => Leq(w, v)
         IN  AddElement(Largest([B EXCEPT ![e] = @ - 1], k - 1), e)

Min2(a, b) == IF a < b THEN a ELSE b

IsQueue == object = "FixedSizePriorityQueue" /\ Constructed

IsHeap == object = "MinMaxHeap" /\ Constructed

\* Only inserts so far, into an instance that was constructed empty.
StreamedIntoEmpty == ctor = "empty" /\ phase = "fill"

(***************************************************************************)
(* C1.  After construction (empty or from a range) and after every insert, *)
(* delete-min and delete-max of a MinMaxHeap, and after every insert, pop  *)
(* and set-capacity of a bounded queue, the array satisfies the min-max    *)
(* ordering invariant: a node at even depth is <= each of its descendants  *)
(* and a node at odd depth is >= each of its descendants.                  *)
(***************************************************************************)
C1_MinMaxOrdering == MinMaxOrdered(m_Heap)

\* A delete-min left seven elements of three distinct values: the root was
\* refilled from the last leaf and trickled down past grandchildren.
C1_Witness ==
    /\ IsHeap
    /\ op = "DeleteMinimum" /\ ~thrown
    /\ Len(m_Heap) = 7
    /\ Cardinality(DistinctValues(m_Heap)) = 3

(***************************************************************************)
(* C2.  After a stream of inserts into a MinKeep queue constructed empty   *)
(* with capacity K > 0, the stored multiset is that of the min(K, stream   *)
(* length) smallest elements of the stream, smallest in the user's order.  *)
(***************************************************************************)
C2_MinKeepKeepsSmallest ==
    (IsQueue /\ ~MaxPriority /\ StreamedIntoEmpty /\ m_MaximumCapacity > 0)
        => MultisetOf(m_Heap) =
               Smallest(inserted, Min2(m_MaximumCapacity, Size(inserted)))

\* The same, for queues whose comparison object is std::less.
C2_MinKeepKeepsSmallestStdLess ==
    m_LessThanComparison = "less" => C2_MinKeepKeepsSmallest

(***************************************************************************)
(* C3.  After a stream of inserts into a MaxKeep queue constructed empty   *)
(* with capacity K > 0, the stored multiset is that of the min(K, stream   *)
(* length) largest elements of the stream, largest in the user's order.    *)
(***************************************************************************)
C3_MaxKeepKeepsLargest ==
    (IsQueue /\ MaxPriority /\ StreamedIntoEmpty /\ m_MaximumCapacity > 0)
        => MultisetOf(m_Heap) =
               Largest(inserted, Min2(m_MaximumCapacity, Size(inserted)))

\* A MaxKeep queue of capacity 3 was offered six elements, among them all
\* three values, so that elements were evicted and elements were refused.
C3_Witness ==
    /\ IsQueue /\ MaxPriority /\ StreamedIntoEmpty
    /\ op = "Insert"
    /\ m_MaximumCapacity = 3
    /\ Size(inserted) = 6
    /\ \A v \in 1 .. 3 : inserted[v] > 0
    /\ Len(m_Heap) = 3

(***************************************************************************)
(* C4.  Whenever a public operation of the bounded queue has returned (or  *)
(* thrown), the queue stores at most m_MaximumCapacity elements.           *)
(***************************************************************************)
C4_SizeAtMostCapacity ==
    object = "FixedSizePriorityQueue" => Len(m_Heap) <= m_MaximumCapacity

\* Six inserts into a queue of capacity 4: the last two met a full queue.
C4_Witness ==
    /\ IsQueue
    /\ op = "Insert" /\ ~thrown
    /\ StreamedIntoEmpty
    /\ m_MaximumCapacity = 4
    /\ Size(inserted) = 6
    /\ Len(m_Heap) = 4
    /\ Size(inserted) > 4
    /\ MultisetOf(m_Heap)[arg] > 0

(***************************************************************************)
(* C5.  An insert into a bounded queue whose capacity is 0 completes       *)
(* normally: it does not end with an exception.                            *)
(***************************************************************************)
C5_ZeroCapacityInsertReturns ==
    (IsQueue /\ op = "Insert" /\ m_MaximumCapacity = 0) => ~thrown

(***************************************************************************)
(* C6.  A bounded queue whose capacity is 0 stores nothing after an insert *)
(* attempt, whatever was inserted before and whichever its polarity.       *)
(***************************************************************************)
C6_ZeroCapacityStaysEmpty ==
    (IsQueue /\ op = "Insert" /\ m_MaximumCapacity = 0) => Len(m_Heap) = 0

\* A queue that held elements was set to capacity 0 and then offered one.
C6_Witness ==
    /\ IsQueue
    /\ op = "Insert"
    /\ m_MaximumCapacity = 0
    /\ phase = "mixed"
    /\ Len(m_Heap) = 0

(***************************************************************************)
(* C7.  Called on an empty container, each of find-min, find-max,          *)
(* delete-min and delete-max of the heap and each of peek and pop of the   *)
(* bounded queue ends with the Empty error (std::out_of_range) and leaves  *)
(* the array empty and the capacity as it was.                             *)
(***************************************************************************)
ExtremumOps ==
    {"FindMinimum", "FindMaximum", "DeleteMinimum", "DeleteMaximum",
     "Peek", "Pop"}

C7_EmptyFails ==
    [][(Constructed /\ Len(m_Heap) = 0 /\ op' \in ExtremumOps)
           => (thrown' /\ m_Heap' = << >>
               /\ m_MaximumCapacity' = m_MaximumCapacity)]_vars

\* delete-max was called on a heap that earlier operations had emptied.
C7_Witness ==
    /\ IsHeap
    /\ op = "DeleteMaximum"
    /\ thrown
    /\ phase = "mixed"
    /\ Len(m_Heap) = 0

(***************************************************************************)
(* C8.  In a non-empty heap find-min yields the element at offset 0, and   *)
(* that element is <= every stored element.                                *)
(***************************************************************************)
C8_MinAtRoot ==
    (Constructed /\ Len(m_Heap) > 0) =>
        /\ FindMinimum(m_Heap) = Return(m_Heap[1])
        /\ \A i \in DOMAIN m_Heap : Leq(m_Heap[1], m_Heap[i])
        /\ (op = "FindMinimum" => ~thrown /\ returned = m_Heap[1])

\* find-min returned from a heap of eight elements holding all the values.
C8_Witness ==
    /\ IsHeap
    /\ op = "FindMinimum" /\ ~thrown
    /\ Len(m_Heap) = 8
    /\ DistinctValues(m_Heap) = Values
    /\ returned = m_Heap[1]

(***************************************************************************)
(* C9.  In a non-empty heap find-max yields a value >= every stored        *)
(* element, taken from offset 0 when n = 1, offset 1 when n = 2 and offset *)
(* 1 or 2 when n >= 3 (so find-min = find-max when n = 1).                 *)
(***************************************************************************)
C9_MaxInBand ==
    (Constructed /\ Len(m_Heap) > 0) =>
        LET o == FindMaximumOffset(m_Heap)
            m == FindMaximum(m_Heap)
        IN  /\ ~o.thrown /\ ~m.thrown
            /\ m.value = m_Heap[o.value + 1]
            /\ \A i \in DOMAIN m_Heap : Leq(m_Heap[i], m.value)
            /\ Len(m_Heap) = 1 => (o.value = 0 /\ FindMinimum(m_Heap) = m)
            /\ Len(m_Heap) = 2 => o.value = 1
            /\ Len(m_Heap) >= 3 => o.value \in {1, 2}
            /\ (op = "FindMaximum" => ~thrown /\ returned = m.value)

\* find-max returned the right child of the root, which is larger than the
\* left one, from a heap of eight elements.
C9_Witness ==
    /\ IsHeap
    /\ op = "FindMaximum" /\ ~thrown
    /\ Len(m_Heap) = 8
    /\ LessThanComparison(m_Heap[2], m_Heap[3])
    /\ returned = m_Heap[3]

(***************************************************************************)
(* C10.  Values inserted one by one into a heap constructed empty and then *)
(* taken out by find-min, delete-min until the heap is empty come out in   *)
(* non-decreasing order, and they are exactly the values inserted.         *)
(***************************************************************************)
NonDecreasing(s) == \A i \in 1 .. Len(s) - 1 : Leq(s[i], s[i + 1])

C10_MinDrainSorted ==
    (IsHeap /\ ctor = "empty" /\ phase = "drainMin") =>
        /\ NonDecreasing(removed)
        /\ Len(m_Heap) = 0 => MultisetOf(removed) = inserted

\* Six values with duplicates, all three values among them, were drained.
C10_Witness ==
    /\ IsHeap /\ ctor = "empty" /\ phase = "drainMin"
    /\ op = "DeleteMinimum"
    /\ Len(m_Heap) = 0
    /\ Len(removed) = 6
    /\ DistinctValues(removed) = 1 .. 3

(***************************************************************************)
(* C11.  Values inserted one by one into a heap constructed empty and then *)
(* taken out by find-max, delete-max until the heap is empty come out in   *)
(* non-increasing order, and they are exactly the values inserted.         *)
(***************************************************************************)
NonIncreasing(s) == \A i \in 1 .. Len(s) - 1 : Leq(s[i + 1], s[i])

C11_MaxDrainSorted ==
    (IsHeap /\ ctor = "empty" /\ phase = "drainMax") =>
        /\ NonIncreasing(removed)
        /\ Len(m_Heap) = 0 => MultisetOf(removed) = inserted

\* Six values with duplicates, all three values among them, were drained
\* from the maximum end.
C11_Witness ==
    /\ IsHeap /\ ctor = "empty" /\ phase = "drainMax"
    /\ op = "DeleteMaximum"
    /\ Len(m_Heap) = 0
    /\ Len(removed) = 6
    /\ DistinctValues(removed) = 1 .. 3

(***************************************************************************)
(* C12.  From a heap holding the distinct values 1 .. N, however it was    *)
(* arranged by inserts or by construction from a range, taking find-min,   *)
(* delete-min and find-max, delete-max in turn yields the k-th smallest as *)
(* the k-th minimum and the k-th largest as the k-th maximum, in the       *)
(* user's order: (1, N), (2, N - 1), ... under std::less.                  *)
(***************************************************************************)
\* The number of elements offered, and whether they are 1 .. N.
OriginalCount == Cardinality({v \in DistinctRange : inserted[v] > 0})

HeldOneToN ==
    \A v \in DistinctRange :
        inserted[v] = (IF v <= OriginalCount THEN 1 ELSE 0)

\* The j-th smallest of 1 .. n in the user's order.
Ranked(j, n) == IF m_LessThanComparison = "less" THEN j ELSE n + 1 - j

TakenInTurn ==
    phase = "alternate" \/ (phase = "drainMin" /\ Len(removed) = 1)

C12_AlternateDrain ==
    (IsHeap /\ TakenInTurn /\ HeldOneToN) =>
        \A k \in 1 .. Len(removed) :
            removed[k] = Ranked(IF k % 2 = 1 THEN (k + 1) \div 2
                                ELSE OriginalCount + 1 - (k \div 2),
                                OriginalCount)

\* The values 1 .. 5, inserted in some order, were taken in turn until the
\* heap was empty.
C12_Witness ==
    /\ IsHeap /\ ctor = "empty" /\ phase = "alternate"
    /\ m_LessThanComparison = "less"
    /\ HeldOneToN
    /\ Len(m_Heap) = 0
    /\ removed = <<1, 5, 2, 4, 3>>

(***************************************************************************)
(* C13.  The heap constructed from a source sequence S, of any length from *)
(* 0 on, holds exactly the elements of S and satisfies the min-max         *)
(* ordering invariant, and taking find-min, delete-min from it until it is *)
(* empty yields the elements of S in non-decreasing order.                 *)
(***************************************************************************)
\* Constructed from a range and not inserted into since.
BuiltFromRange == IsHeap /\ ctor = "range"

C13_BulkBuild ==
    /\ (BuiltFromRange /\ op = "construct") =>
           /\ MultisetOf(m_Heap) = MultisetOf(arg)
           /\ MinMaxOrdered(m_Heap)
    /\ (BuiltFromRange /\ phase = "drainMin") =>
           /\ NonDecreasing(removed)
           /\ Len(m_Heap) = 0 => MultisetOf(removed) = inserted

\* A heap built from six elements, all three values among them, was
\* drained from the minimum end.
C13_Witness ==
    /\ BuiltFromRange /\ phase = "drainMin"
    /\ op = "DeleteMinimum"
    /\ Len(m_Heap) = 0
    /\ Len(removed) = 6
    /\ DistinctValues(removed) = 1 .. 3

(***************************************************************************)
(* C14.  Constructing a bounded queue of capacity K from a source sequence *)
(* S completes and leaves the same multiset of elements as constructing an *)
(* empty queue of capacity K and inserting the elements of S one at a time *)
(* in order, for either polarity.                                          *)
(***************************************************************************)
\* Insert of S[k], S[k+1], ... one call at a time; a call that throws
\* leaves the heap as it was.
RECURSIVE InsertOneByOne(_, _, _, _, _)
InsertOneByOne(h, S, k, MaximumCapacity, IsMaxPriority) ==
    IF k > Len(S) THEN h
    ELSE InsertOneByOne(Emplace(h, MaximumCapacity, IsMaxPriority, S[k]).heap,
                        S, k + 1, MaximumCapacity, IsMaxPriority)

QueueBuiltFromRange ==
    object = "FixedSizePriorityQueue" /\ op = "construct" /\ ctor = "range"

C14_BulkMatchesStream ==
    QueueBuiltFromRange =>
        /\ ~thrown
        /\ MultisetOf(m_Heap) =
               MultisetOf(InsertOneByOne(<< >>, arg, 1, m_MaximumCapacity,
                                         MaxPriority))

\* Whenever the range constructor returns, the contents agree.
C14_BulkMatchesStreamWhenReturned ==
    (QueueBuiltFromRange /\ ~thrown) =>
        MultisetOf(m_Heap) =
            MultisetOf(InsertOneByOne(<< >>, arg, 1, m_MaximumCapacity,
                                      MaxPriority))

(***************************************************************************)
(* C15.  Insert(x) on a full queue of capacity K > 0 accepts x exactly     *)
(* when x is strictly better than the worst element held (less than the    *)
(* maximum of a min priority queue, greater than the minimum of a max      *)
(* priority queue, in the queue's order).  When it accepts, the contents   *)
(* become the old contents without one worst element and with x; when it   *)
(* does not, x equal to the worst included, the contents stay.  Either way *)
(* the queue is still full.                                                *)
(***************************************************************************)
\* The worst element of a non-empty h for the queue's polarity, in the
\* user's order.
Worst(h) ==
    CHOOSE w \in DistinctValues(h) :
        \A v \in DistinctValues(h) :
            IF MaxPriority THEN Leq(w, v) ELSE Leq(v, w)

StrictlyBetter(x, w) ==
    IF MaxPriority THEN LessThanComparison(w, x)
    ELSE LessThanComparison(x, w)

RemoveElement(B, v) == [B EXCEPT ![v] = @ - 1]

\* An Insert is called on a full queue of positive capacity.
InsertWhenFull ==
    /\ IsQueue
    /\ m_MaximumCapacity > 0
    /\ Len(m_Heap) = m_MaximumCapacity
    /\ op' = "Insert"

FullInsertPolicy ==
    InsertWhenFull =>
        /\ ~thrown'
        /\ Len(m_Heap') = m_MaximumCapacity
        /\ m_MaximumCapacity' = m_MaximumCapacity
        /\ MultisetOf(m_Heap') =
               IF StrictlyBetter(arg', Worst(m_Heap))
               THEN AddElement(RemoveElement(MultisetOf(m_Heap),
                                             Worst(m_Heap)), arg')
               ELSE MultisetOf(m_Heap)

C15_FullInsertPolicy == [][FullInsertPolicy]_vars

\* The same for the instantiations whose admission test is made in the
\* user's order: every max priority queue, and the min priority queue
\* ordered by std::less.
C15_FullInsertPolicyBuiltinOrder ==
    [][(MaxPriority \/ m_LessThanComparison = "less") => FullInsertPolicy]_vars

(***************************************************************************)
(* C16.  When Insert(x) on a full queue discards x, x being not strictly   *)
(* better than the worst element held, the backing array is the same       *)
(* element by element afterwards, and so are the size and the capacity.    *)
(***************************************************************************)
DiscardLeavesHeap ==
    (InsertWhenFull /\ ~StrictlyBetter(arg', Worst(m_Heap))) =>
        /\ m_Heap' = m_Heap
        /\ m_MaximumCapacity' = m_MaximumCapacity

C16_DiscardLeavesHeapBuiltinOrder ==
    [][(MaxPriority \/ m_LessThanComparison = "less") => DiscardLeavesHeap]_vars

C17_AtMostOneOver ==
    (object = "FixedSizePriorityQueue" /\ Constructed) =>
        Len(m_Heap) <= m_MaximumCapacity
                           + (IF op = "EmplaceInserted" THEN 1 ELSE 0)

(***************************************************************************)
(* C18.  The admission test of a full queue is made with the user's        *)
(* less-than alone: a min priority queue lets x in exactly when x is less  *)
(* than the current maximum by the user's comparison, a max priority queue *)
(* exactly when the current minimum is less than x by it, whichever        *)
(* comparison the user supplied.                                           *)
(***************************************************************************)
\* The comparison of Emplace is made on a full queue of positive capacity.
ComparesWhenFull ==
    /\ op = "Emplace"
    /\ m_MaximumCapacity > 0
    /\ Len(m_Heap) = m_MaximumCapacity
    /\ op' # "Emplace"

AdmitsByUserOrder ==
    ComparesWhenFull =>
        (op' = "EmplaceAdmitted" <=> StrictlyBetter(arg, Worst(m_Heap)))

C18_AdmitsByUserOrder == [][AdmitsByUserOrder]_vars

\* The max priority queue does decide by the user's comparison.
C18_MaxPriorityAdmitsByUserOrder == [][MaxPriority => AdmitsByUserOrder]_vars

(***************************************************************************)
(* C19.  SetMaximumCapacity(K') on a queue holding more than K' elements   *)
(* returns with exactly K' elements stored, which are the K' best of those *)
(* held before (the smallest of a min priority queue, the largest of a max *)
(* priority queue, in the queue's order), and with the min-max ordering    *)
(* intact.  K' = 0 empties the queue and does not throw.                   *)
(***************************************************************************)
Shrinks ==
    /\ IsQueue
    /\ op' = "SetMaximumCapacity"
    /\ Len(m_Heap) > arg'

ShrinkKeepsBest ==
    Shrinks =>
        /\ ~thrown'
        /\ m_MaximumCapacity' = arg'
        /\ Len(m_Heap') = arg'
        /\ MultisetOf(m_Heap') =
               IF MaxPriority THEN Largest(MultisetOf(m_Heap), arg')
               ELSE Smallest(MultisetOf(m_Heap), arg')
        /\ MinMaxOrdered(m_Heap')

C19_ShrinkKeepsBest == [][ShrinkKeepsBest]_vars

\* A queue of four elements was cut down to two; the two trimmed elements
\* differ.
C19_Witness ==
    /\ IsQueue
    /\ op = "SetMaximumCapacity" /\ ~thrown
    /\ m_MaximumCapacity = 2
    /\ Len(m_Heap) = 2
    /\ Len(removed) = 2
    /\ removed[1] # removed[2]

(***************************************************************************)
(* C20.  SetMaximumCapacity(K') on a queue holding at most K' elements     *)
(* changes the capacity only: the backing array is the same element by     *)
(* element, and a second call with the same K' changes nothing at all.     *)
(***************************************************************************)
NoShrinkKeepsHeap ==
    (IsQueue /\ op' = "SetMaximumCapacity" /\ Len(m_Heap) <= arg') =>
        /\ ~thrown'
        /\ m_MaximumCapacity' = arg'
        /\ m_Heap' = m_Heap

RepeatedChangesNothing ==
    (IsQueue /\ op = "SetMaximumCapacity" /\ op' = "SetMaximumCapacity"
         /\ arg' = arg) =>
        /\ m_Heap' = m_Heap
        /\ m_MaximumCapacity' = m_MaximumCapacity
        /\ thrown' = thrown

C20_NoShrinkKeepsHeap ==
    [][NoShrinkKeepsHeap /\ RepeatedChangesNothing]_vars

\* The capacity of a queue holding three elements was set to four, and
\* nothing was trimmed.
C20_Witness ==
    /\ IsQueue
    /\ op = "SetMaximumCapacity" /\ ~thrown
    /\ m_MaximumCapacity = 4
    /\ Len(m_Heap) = 3
    /\ removed = << >>
    /\ Cardinality(DistinctValues(m_Heap)) = 3

(***************************************************************************)
(* C21.  Once the capacity of a full queue has been raised to K' above its *)
(* size, every Insert is accepted whatever its value until the queue holds *)
(* K' elements; the Insert that meets K' elements leaves the size at K'.   *)
(***************************************************************************)
AcceptsUntilFull ==
    (IsQueue /\ phase = "enlarged" /\ op' = "Insert") =>
        /\ ~thrown'
        /\ IF Len(m_Heap) < m_MaximumCapacity
           THEN MultisetOf(m_Heap') = AddElement(MultisetOf(m_Heap), arg')
           ELSE Len(m_Heap') = m_MaximumCapacity

C21_AcceptsUntilFull == [][AcceptsUntilFull]_vars

\* A min priority queue ordered by std::less, raised to capacity 4 when
\* full, took two more elements 3, its worst value, and is full again.
C21_Witness ==
    /\ IsQueue /\ phase = "enlarged"
    /\ ~MaxPriority /\ m_LessThanComparison = "less"
    /\ op = "Insert" /\ ~thrown
    /\ m_MaximumCapacity = 4
    /\ Len(m_Heap) = 4
    /\ inserted[3] = 2 /\ Size(inserted) = 2
    /\ Occurrences(m_Heap, 3) = 2

(***************************************************************************)
(* C22.  Peek on a non-empty queue returns the best element of the current *)
(* contents: the minimum of a min priority queue, the maximum of a max     *)
(* priority queue, in the queue's order, whatever inserts, pops and        *)
(* changes of capacity came before.                                        *)
(***************************************************************************)
\* The best element of a non-empty h for the queue's polarity.
Best(h) ==
    CHOOSE b \in DistinctValues(h) :
        \A v \in DistinctValues(h) :
            IF MaxPriority THEN Leq(v, b) ELSE Leq(b, v)

C22_PeekReturnsBest ==
    (IsQueue /\ op = "Peek" /\ Len(m_Heap) > 0) =>
        /\ ~thrown
        /\ returned = Best(m_Heap)

\* A peek at a queue holding three different values, after pops or changes
\* of capacity.
C22_Witness ==
    /\ IsQueue /\ op = "Peek" /\ ~thrown
    /\ phase = "mixed"
    /\ Cardinality(DistinctValues(m_Heap)) = 3
    /\ returned = Best(m_Heap)
    /\ returned # m_Heap[Len(m_Heap)]

(***************************************************************************)
(* C23.  Pop on a non-empty queue removes exactly one instance of the best *)
(* element, the one Peek returns: the size goes down by one and every      *)
(* other stored element stays.                                             *)
(***************************************************************************)
PopRemovesBest ==
    (IsQueue /\ op' = "Pop" /\ Len(m_Heap) > 0) =>
        /\ ~thrown'
        /\ Len(m_Heap') = Len(m_Heap) - 1
        /\ MultisetOf(m_Heap') =
               RemoveElement(MultisetOf(m_Heap), Best(m_Heap))
        /\ m_MaximumCapacity' = m_MaximumCapacity

C23_PopRemovesBest == [][PopRemovesBest]_vars

\* A pop from a full queue of capacity 4 left three elements of two
\* different values.
C23_Witness ==
    /\ IsQueue /\ op = "Pop" /\ ~thrown
    /\ m_MaximumCapacity = 4
    /\ Len(m_Heap) = 3
    /\ Cardinality(DistinctValues(m_Heap)) = 2

(***************************************************************************)
(* C24.  Under every interleaving of Insert, DeleteMinimum and             *)
(* DeleteMaximum of a MinMaxHeap, Insert(x) adds exactly one x to the      *)
(* stored multiset, DeleteMinimum takes exactly one minimum out of it and  *)
(* DeleteMaximum exactly one maximum; nothing else is lost, duplicated or  *)
(* altered, and the array stays a gapless sequence of that many elements.  *)
(***************************************************************************)
MinimumOf(h) ==
    CHOOSE b \in DistinctValues(h) : \A v \in DistinctValues(h) : Leq(b, v)

MaximumOf(h) ==
    CHOOSE b \in DistinctValues(h) : \A v \in DistinctValues(h) : Leq(v, b)

MultisetStep ==
    (IsHeap /\ ~thrown'
        /\ op' \in {"Insert", "DeleteMinimum", "DeleteMaximum"}) =>
        /\ m_Heap' \in Seq(Values)
        /\ MultisetOf(m_Heap') =
               CASE op' = "Insert" -> AddElement(MultisetOf(m_Heap), arg')
                 [] op' = "DeleteMinimum" ->
                        RemoveElement(MultisetOf(m_Heap), MinimumOf(m_Heap))
                 [] op' = "DeleteMaximum" ->
                        RemoveElement(MultisetOf(m_Heap), MaximumOf(m_Heap))
        /\ Len(m_Heap') = Len(m_Heap) + (IF op' = "Insert" THEN 1 ELSE -1)

C24_MultisetStep == [][MultisetStep]_vars

\* Inserts and deletions at both ends were interleaved, and a deletion of
\* the maximum left five elements of three different values.
C24_Witness ==
    /\ IsHeap /\ phase = "mixed"
    /\ op = "DeleteMaximum" /\ ~thrown
    /\ Len(m_Heap) = 5
    /\ Cardinality(DistinctValues(m_Heap)) = 3

(***************************************************************************)
(* C25.  After Insert(x) on a MinMaxHeap returns, FindMinimum is the       *)
(* lesser of x and the minimum held before, and FindMaximum the greater of *)
(* x and the maximum held before; both are x when the heap was empty.      *)
(***************************************************************************)
Lesser(a, b) == IF LessThanComparison(b, a) THEN b ELSE a

Greater(a, b) == IF LessThanComparison(a, b) THEN b ELSE a

InsertShowsInExtrema ==
    (IsHeap /\ op' = "Insert") =>
        /\ FindMinimum(m_Heap') =
               Return(IF Len(m_Heap) = 0 THEN arg'
                      ELSE Lesser(arg', MinimumOf(m_Heap)))
        /\ FindMaximum(m_Heap') =
               Return(IF Len(m_Heap) = 0 THEN arg'
                      ELSE Greater(arg', MaximumOf(m_Heap)))

C25_InsertShowsInExtrema == [][InsertShowsInExtrema]_vars

\* The sixth element inserted is a new extremum: it is held once and
\* FindMaximum or FindMinimum returns it.
C25_Witness ==
    /\ IsHeap /\ op = "Insert"
    /\ Len(m_Heap) = 6
    /\ Occurrences(m_Heap, arg) = 1
    /\ arg = 3
    /\ \/ FindMaximum(m_Heap) = Return(arg)
       \/ FindMinimum(m_Heap) = Return(arg)

(***************************************************************************)
(* C26.  FindMinimum and FindMaximum of a MinMaxHeap and Peek of a queue   *)
(* leave the backing array, and with it the size, and the capacity as they *)
(* were, whether they return a value or throw on an empty container.       *)
(***************************************************************************)
QueriesKeepState ==
    (Constructed /\ op' \in {"FindMinimum", "FindMaximum", "Peek"}) =>
        /\ m_Heap' = m_Heap
        /\ m_MaximumCapacity' = m_MaximumCapacity

C26_QueriesKeepState == [][QueriesKeepState]_vars

\* FindMinimum returned the root of a heap of seven elements.
C26_Witness ==
    /\ IsHeap /\ op = "FindMinimum" /\ ~thrown
    /\ Len(m_Heap) = 7
    /\ returned = m_Heap[1]
    /\ Cardinality(DistinctValues(m_Heap)) = 3

(***************************************************************************)
(* The states of a queue, against its capacity K = m_MaximumCapacity:      *)
(* Empty (size = 0), Filling (0 < size < K), Full (size = K).              *)
(***************************************************************************)
IsEmptyState(h, K) == Len(h) = 0

IsFillingState(h, K) == 0 < Len(h) /\ Len(h) < K

IsFullState(h, K) == Len(h) = K

InsertWhenEmpty ==
    /\ IsQueue
    /\ m_MaximumCapacity > 0
    /\ IsEmptyState(m_Heap, m_MaximumCapacity)
    /\ op' = "Insert"

(***************************************************************************)
(* C27 as stated.  For every capacity K > 0, an Insert on an empty queue   *)
(* leaves it Filling.                                                      *)
(***************************************************************************)
C27_EmptyToFilling ==
    [][InsertWhenEmpty =>
           IsFillingState(m_Heap', m_MaximumCapacity')]_vars

(***************************************************************************)
(* C27 amended.  For every capacity K > 0, an Insert on an empty queue     *)
(* returns with exactly the inserted element stored: the queue is Filling  *)
(* when K > 1 and Full when K = 1.                                         *)
(***************************************************************************)
C27_EmptyToFillingOrFull ==
    [][InsertWhenEmpty =>
           /\ ~thrown'
           /\ m_Heap' = <<arg'>>
           /\ m_MaximumCapacity' = m_MaximumCapacity
           /\ IF m_MaximumCapacity > 1
              THEN IsFillingState(m_Heap', m_MaximumCapacity')
              ELSE IsFullState(m_Heap', m_MaximumCapacity')]_vars

\* The first insert into an empty queue of capacity 1, which is full with it.
C27_Witness ==
    /\ IsQueue /\ StreamedIntoEmpty
    /\ op = "Insert" /\ ~thrown
    /\ Size(inserted) = 1
    /\ m_MaximumCapacity = 1
    /\ m_Heap = <<arg>>

PopWhenFull ==
    /\ IsQueue
    /\ IsFullState(m_Heap, m_MaximumCapacity)
    /\ op' = "Pop"

(***************************************************************************)
(* C28 as stated.  For every capacity K, a Pop on a full queue leaves it   *)
(* Filling.                                                                *)
(***************************************************************************)
C28_FullToFilling ==
    [][PopWhenFull => IsFillingState(m_Heap', m_MaximumCapacity')]_vars

(***************************************************************************)
(* C28 amended.  A Pop on a full queue of capacity K > 0 returns with      *)
(* K - 1 elements stored: the queue is Filling when K > 1 and Empty when   *)
(* K = 1.  On a queue of capacity 0, which is full and empty at once, Pop  *)
(* throws and the queue stays as it is.                                    *)
(***************************************************************************)
C28_FullToFillingOrEmpty ==
    [][PopWhenFull =>
           /\ m_MaximumCapacity' = m_MaximumCapacity
           /\ IF m_MaximumCapacity = 0
              THEN thrown' /\ m_Heap' = m_Heap
              ELSE /\ ~thrown'
                   /\ Len(m_Heap') = m_MaximumCapacity - 1
                   /\ IF m_MaximumCapacity > 1
                      THEN IsFillingState(m_Heap', m_MaximumCapacity')
                      ELSE IsEmptyState(m_Heap', m_MaximumCapacity')]_vars

\* A pop emptied a queue of capacity 1.
C28_Witness ==
    /\ IsQueue /\ op = "Pop" /\ ~thrown
    /\ m_MaximumCapacity = 1
    /\ Len(m_Heap) = 0

\* A SetMaximumCapacity call whose new capacity is below the current size.
TrimsOnSetCapacity ==
    /\ IsQueue
    /\ op' = "SetMaximumCapacity"
    /\ m_MaximumCapacity' < Len(m_Heap)

(***************************************************************************)
(* C29 as stated.  A SetMaximumCapacity call that trims leaves the queue   *)
(* Filling or Empty with respect to the new capacity.                      *)
(***************************************************************************)
C29_TrimToFillingOrEmpty ==
    [][TrimsOnSetCapacity =>
           \/ IsFillingState(m_Heap', m_MaximumCapacity')
           \/ IsEmptyState(m_Heap', m_MaximumCapacity')]_vars

(***************************************************************************)
(* C29 amended.  A SetMaximumCapacity call that trims leaves exactly as    *)
(* many elements as the new capacity: the queue is Full with respect to    *)
(* the new capacity, never Filling, and Empty only when the new capacity   *)
(* is 0.                                                                   *)
(***************************************************************************)
C29_TrimToFull ==
    [][TrimsOnSetCapacity =>
           /\ ~thrown'
           /\ m_MaximumCapacity' = arg'
           /\ IsFullState(m_Heap', m_MaximumCapacity')
           /\ ~IsFillingState(m_Heap', m_MaximumCapacity')
           /\ IsEmptyState(m_Heap', m_MaximumCapacity')
                  <=> m_MaximumCapacity' = 0]_vars

\* A call dropped two or more elements and left a non-empty full queue.
C29_Witness ==
    /\ IsQueue /\ op = "SetMaximumCapacity"
    /\ Len(removed) >= 2
    /\ m_MaximumCapacity > 0
    /\ Len(m_Heap) = m_MaximumCapacity

(***************************************************************************)
(* GetLevel at the width of its types.  NodeOffsetType is the vector's     *)
(* difference_type, which is wider than unsigned where the heap can hold   *)
(* 2^32 elements, so offsets and sizes are kept here as words: sequences   *)
(* of bits, least significant first, of any length.  GetLevel reads the    *)
(* size of the array and none of its elements; the size is an input of     *)
(* the step and m_Heap is left alone.                                      *)
(***************************************************************************)
UnsignedWidth == 32

MaxLevel == 33

\* The word without its leading zero bits.
RECURSIVE Canonical(_)
Canonical(w) ==
    IF w = << >> THEN << >>
    ELSE IF w[Len(w)] = 0 THEN Canonical(SubSeq(w, 1, Len(w) - 1))
    ELSE w

RECURSIVE ToWord(_)
ToWord(n) == IF n = 0 THEN << >> ELSE <<n % 2>> \o ToWord(n \div 2)

\* w + 1 at full width.
RECURSIVE Increment(_)
Increment(w) ==
    IF w = << >> THEN <<1>>
    ELSE IF w[1] = 0 THEN <<1>> \o Tail(w)
    ELSE <<0>> \o Increment(Tail(w))

IsZero(w) == \A j \in 1 .. Len(w) : w[j] = 0

\* a < b.
WordLess(a, b) ==
    LET x == Canonical(a)
        y == Canonical(b)
    IN  IF Len(x) # Len(y) THEN Len(x) < Len(y)
        ELSE \E j \in 1 .. Len(x) :
                 /\ x[j] < y[j]
                 /\ \A m \in j + 1 .. Len(x) : x[m] = y[m]

\* 0 <= NodeOffset && NodeOffset < m_Heap.size(); a word is never negative.
IsValidNodeOfSize(size, NodeOffset) == WordLess(NodeOffset, size)

\* static_cast<unsigned>(NodeOffset): the low UnsignedWidth bits.
StaticCastUnsigned(NodeOffset) ==
    [j \in 1 .. UnsignedWidth |-> IF j <= Len(NodeOffset) THEN NodeOffset[j] ELSE 0]

\* UnsignedNodeOffset + 1 in unsigned arithmetic: the carry out is dropped.
UnsignedIncrement(u) == SubSeq(Increment(u), 1, UnsignedWidth)

\* Value >>= 1 on an unsigned.
ShiftRight(Value) == Tail(Value) \o <<0>>

\* while(Value >>= 1) ++PowersOfTwo;
RECURSIVE ShiftLoop(_, _)
ShiftLoop(Value, PowersOfTwo) ==
    LET Shifted == ShiftRight(Value)
    IN  IF IsZero(Shifted) THEN PowersOfTwo
        ELSE ShiftLoop(Shifted, PowersOfTwo + 1)

\* BinaryLogarithmIntegerFloor on an unsigned.  With Value = 0 a build with
\* assertions stops at assert(Value > 0) and a build without them runs the
\* loop, which returns 0.
BinaryLogarithmIntegerFloorOfWord(Value) ==
    {[aborted |-> FALSE, value |-> ShiftLoop(Value, 0)]}
    \cup (IF IsZero(Value) THEN {[aborted |-> TRUE, value |-> 0]} ELSE {})

\* The outcomes of GetLevel(NodeOffset) on a heap of the given size.
GetLevelOfWord(size, NodeOffset) ==
    IF ~IsValidNodeOfSize(size, NodeOffset)
    THEN {[aborted |-> FALSE, value |-> -1]}
    ELSE BinaryLogarithmIntegerFloorOfWord(
             UnsignedIncrement(StaticCastUnsigned(NodeOffset)))

\* 2^k, 2^k - 1, 2^k - 2 and 2^k + 1.
PowerOfTwo(k) == [j \in 1 .. k + 1 |-> IF j = k + 1 THEN 1 ELSE 0]

BelowPowerOfTwo(k) == [j \in 1 .. k |-> 1]

TwoBelowPowerOfTwo(k) == Canonical([j \in 1 .. k |-> IF j = 1 THEN 0 ELSE 1])

AbovePowerOfTwo(k) == Increment(PowerOfTwo(k))

\* The offsets at and around every power of two up to 2^MaxLevel, the small
\* offsets, and the offset the source's comment names (node 16,777,205).
NodeOffsets ==
    {PowerOfTwo(k) : k \in 0 .. MaxLevel}
    \cup {BelowPowerOfTwo(k) : k \in 0 .. MaxLevel}
    \cup {TwoBelowPowerOfTwo(k) : k \in 1 .. MaxLevel}
    \cup {AbovePowerOfTwo(k) : k \in 1 .. MaxLevel}
    \cup {ToWord(n) : n \in 0 .. 2 * MaxLen}
    \cup {ToWord(16777204)}

LevelInit ==
    /\ object = "MinMaxHeap"
    /\ MaxPriority = FALSE
    /\ m_LessThanComparison \in {"less", "greater"}
    /\ m_Heap = << >>
    /\ m_MaximumCapacity = 0
    /\ op = "construct"
    /\ arg = << >>
    /\ thrown = FALSE
    /\ returned = 0
    /\ ctor = "any"
    /\ phase = "mixed"
    /\ inserted = NoElements
    /\ removed = << >>

\* GetLevel(NodeOffset) on a heap of size elements.  thrown records that
\* the program stopped at the assertion.
HeapGetLevel(size, NodeOffset) ==
    /\ object = "MinMaxHeap"
    /\ Constructed
    /\ \E r \in GetLevelOfWord(size, NodeOffset) :
          /\ thrown' = r.aborted
          /\ returned' = r.value
    /\ op' = "GetLevel"
    /\ arg' = [GetSize |-> size, NodeOffset |-> NodeOffset]
    /\ UNCHANGED <<Instantiation, m_Heap, m_MaximumCapacity, ctor, phase,
                   inserted, removed>>

\* The node is the one after the last, the last, or the last but one.
LevelNext ==
    \E NodeOffset \in NodeOffsets :
        \E size \in {NodeOffset, Increment(NodeOffset),
                     Increment(Increment(NodeOffset))} :
            HeapGetLevel(size, NodeOffset)

LevelSpec == LevelInit /\ [][LevelNext]_vars

\* floor(log2(w)) of a word w > 0: the position of its highest set bit.
FloorLog2(w) == Len(Canonical(w)) - 1

GotLevelOfValidNode ==
    /\ op = "GetLevel"
    /\ IsValidNodeOfSize(arg.GetSize, arg.NodeOffset)

(***************************************************************************)
(* C30.  For every valid node offset i, GetLevel returns                   *)
(* floor(log2(i + 1)).                                                     *)
(***************************************************************************)
C30_LevelExact ==
    GotLevelOfValidNode =>
        /\ ~thrown
        /\ returned = FloorLog2(Increment(arg.NodeOffset))

\* The same for the offsets i with i + 1 < 2^UnsignedWidth only.
LevelExactInUnsignedRange ==
    (GotLevelOfValidNode /\ Len(Increment(arg.NodeOffset)) <= UnsignedWidth) =>
        /\ ~thrown
        /\ returned = FloorLog2(Increment(arg.NodeOffset))

\* The level of a node of the heaps of Spec, which is computed on integers,
\* is floor(log2(i + 1)) too.
LevelExactInHeap ==
    \A i \in Offsets(m_Heap) :
        GetLevel(m_Heap, i) = FloorLog2(Increment(ToWord(i)))

(***************************************************************************)
(* The legacy fixed_size_priority_queue<int>.  Its vector c_ is kept in    *)
(* m_Heap and max_size_ in m_MaximumCapacity.  std::make_heap and          *)
(* std::pop_heap are library calls; what they leave is fixed by their      *)
(* postcondition only, so each yields every arrangement of the elements    *)
(* that is a heap under operator<.  Positions count from 1.  A call whose  *)
(* behaviour is undefined either stops the program (thrown) or goes on     *)
(* with the queue as it was; phase = "undefined" records it, and no        *)
(* further call is followed.                                               *)
(***************************************************************************)
c_ == m_Heap

max_size_ == m_MaximumCapacity

\* std::is_heap: no element is less than its child.
IsStdHeap(s) == \A i \in 2 .. Len(s) : ~(s[i \div 2] < s[i])

\* std::make_heap(c_.begin(), c_.end()).
MakeHeap(s) ==
    {t \in [1 .. Len(s) -> Values] : MultisetOf(t) = MultisetOf(s) /\ IsStdHeap(t)}

\* std::pop_heap(c_.begin(), c_.end()) on a non-empty heap: the first
\* element goes to the end and the others form a heap.
PopHeap(s) == {Append(t, s[1]) : t \in MakeHeap(Tail(s))}

\* std::min_element(c_.begin(), c_.end()): the first smallest element, and
\* the end position Len(s) + 1 when there is none.
MinElement(s) ==
    IF s = << >> THEN Len(s) + 1
    ELSE CHOOSE i \in 1 .. Len(s) :
             /\ \A j \in 1 .. Len(s) : ~(s[j] < s[i])
             /\ \A j \in 1 .. i - 1 : s[i] < s[j]

LegacyOutcome(c, crashed, defined) ==
    [c |-> c, crashed |-> crashed, defined |-> defined]

\* Mutant of push: a full queue replaces its first element.
pushReplacesFront(c, max_size, x) ==
    IF Len(c) = max_size
    THEN IF MinElement(c) > Len(c)
         THEN {LegacyOutcome(c, crashed, FALSE) : crashed \in BOOLEAN}
         ELSE IF x > c[MinElement(c)]
              THEN {LegacyOutcome(t, FALSE, TRUE) :
                        t \in MakeHeap([c EXCEPT ![1] = x])}
              ELSE {LegacyOutcome(c, FALSE, TRUE)}
    ELSE {LegacyOutcome(t, FALSE, TRUE) : t \in MakeHeap(Append(c, x))}

\* Mutant of push: the element is appended whatever the size.
pushAlwaysAppends(c, max_size, x) ==
    {LegacyOutcome(t, FALSE, TRUE) : t \in MakeHeap(Append(c, x))}

\* push(x).  With the queue at max_size the result of min_element is
\* dereferenced, which on an empty vector is the end position.
push(c, max_size, x) ==
    IF Len(c) = max_size
    THEN IF MinElement(c) > Len(c)
         THEN {LegacyOutcome(c, crashed, FALSE) : crashed \in BOOLEAN}
         ELSE IF x > c[MinElement(c)]
              THEN {LegacyOutcome(t, FALSE, TRUE) :
                        t \in MakeHeap([c EXCEPT ![MinElement(c)] = x])}
              ELSE {LegacyOutcome(c, FALSE, TRUE)}
    ELSE {LegacyOutcome(t, FALSE, TRUE) : t \in MakeHeap(Append(c, x))}

\* Mutant of pop: pop_back without pop_heap.
popDropsLast(c) ==
    IF c = << >> THEN {c}
    ELSE {SubSeq(c, 1, Len(c) - 1)}

\* pop(): nothing on an empty queue, else pop_heap and pop_back.
pop(c) ==
    IF c = << >> THEN {c}
    ELSE {SubSeq(t, 1, Len(t) - 1) : t \in PopHeap(c)}

LegacyInit ==
    /\ object = "fixed_size_priority_queue"
    /\ MaxPriority = TRUE
    /\ m_LessThanComparison = "less"
    /\ m_Heap = << >>
    /\ m_MaximumCapacity = 0
    /\ op = "none"
    /\ arg = 0
    /\ thrown = FALSE
    /\ returned = 0
    /\ ctor = "none"
    /\ phase = "fill"
    /\ inserted = NoElements
    /\ removed = << >>

IsLegacy ==
    /\ object = "fixed_size_priority_queue"
    /\ Constructed
    /\ phase # "undefined"

\* fixed_size_priority_queue(max_size).
LegacyConstruct ==
    /\ object = "fixed_size_priority_queue"
    /\ op = "none"
    /\ \E max_size \in 0 .. MaxCap :
          /\ m_MaximumCapacity' = max_size
          /\ arg' = max_size
    /\ m_Heap' = << >>
    /\ op' = "construct" /\ ctor' = "empty"
    /\ UNCHANGED <<Instantiation, thrown, returned, phase, inserted, removed>>

LegacyPush(x) ==
    /\ IsLegacy
    /\ \E r \in push(c_, max_size_, x) :
          /\ m_Heap' = r.c
          /\ thrown' = r.crashed
          /\ IF r.defined THEN RecordInsert(x)
             ELSE /\ phase' = "undefined"
                  /\ UNCHANGED <<ctor, inserted, removed>>
    /\ op' = "push" /\ arg' = x /\ returned' = 0
    /\ UNCHANGED <<Instantiation, m_MaximumCapacity>>

\* History after a pop of a non-empty queue: a run of pops is followed from
\* its first pop, and inserted then holds the elements stored at that point.
LegacyRecordPop(value) ==
    IF phase = "drainMax"
    THEN /\ removed' = Append(removed, value)
         /\ UNCHANGED <<phase, ctor, inserted>>
    ELSE /\ phase' = "drainMax"
         /\ ctor' = "any"
         /\ inserted' = MultisetOf(c_)
         /\ removed' = <<value>>

LegacyPop ==
    /\ IsLegacy
    /\ \E t \in pop(c_) :
          /\ m_Heap' = t
          /\ IF c_ = << >>
             THEN UNCHANGED <<phase, ctor, inserted, removed>>
             ELSE LegacyRecordPop(
                      CHOOSE v \in Values :
                          MultisetOf(c_) = AddElement(MultisetOf(t), v))
    /\ op' = "pop" /\ arg' = 0 /\ thrown' = FALSE /\ returned' = 0
    /\ UNCHANGED <<Instantiation, m_MaximumCapacity>>

\* top(): c_.front(), which on an empty vector is undefined.
LegacyTop ==
    /\ IsLegacy
    /\ IF c_ = << >>
       THEN /\ thrown' \in BOOLEAN
            /\ returned' = 0
            /\ phase' = "undefined"
       ELSE /\ thrown' = FALSE
            /\ returned' = c_[1]
            /\ UNCHANGED phase
    /\ op' = "top" /\ arg' = 0
    /\ UNCHANGED <<Instantiation, m_Heap, m_MaximumCapacity, ctor,
                   inserted, removed>>

LegacySize ==
    /\ IsLegacy
    /\ returned' = Len(c_)
    /\ op' = "size" /\ arg' = 0 /\ thrown' = FALSE
    /\ UNCHANGED <<Instantiation, m_Heap, m_MaximumCapacity, ctor, phase,
                   inserted, removed>>

LegacyNext ==
    \/ LegacyConstruct
    \/ \E x \in Values : LegacyPush(x)
    \/ LegacyPop
    \/ LegacyTop
    \/ LegacySize

LegacySpec == LegacyInit /\ [][LegacyNext]_vars

\* A push on a legacy queue whose size equals its max_size.
PushWhenLegacyFull ==
    /\ IsLegacy
    /\ max_size_ > 0
    /\ Len(c_) = max_size_
    /\ op' = "push"

(***************************************************************************)
(* C31.  A legacy queue with max_size K > 0 never holds more than K        *)
(* elements, whatever pushes and pops it has seen, and a push at size K    *)
(* leaves the size at K.                                                   *)
(***************************************************************************)
C31_LegacySizeBounded ==
    [][/\ (IsLegacy /\ max_size_ > 0) =>
              /\ Len(c_) <= max_size_
              /\ Len(m_Heap') <= m_MaximumCapacity'
       /\ PushWhenLegacyFull => (~thrown' /\ Len(m_Heap') = max_size_)]_vars

\* A push arrived at a full legacy queue of max_size 3 after pops and
\* pushes had emptied and refilled part of it.
C31_Witness ==
    /\ IsLegacy /\ op = "push" /\ ~thrown
    /\ max_size_ = 3
    /\ Len(c_) = 3
    /\ phase = "mixed"

\* Only pushes have come since the legacy queue was constructed.
LegacyStreamed == IsLegacy /\ max_size_ > 0 /\ ctor = "empty" /\ phase = "fill"

(***************************************************************************)
(* C32.  A legacy queue with max_size K > 0 that has only been pushed to   *)
(* holds the min(K, stream length) largest values of the stream; a push    *)
(* at size K replaces one smallest stored element when the new element is  *)
(* strictly larger than it and changes nothing otherwise.                  *)
(***************************************************************************)
C32_LegacyKeepsLargest ==
    [][/\ (LegacyStreamed /\ phase' = "fill") =>
              MultisetOf(m_Heap') =
                  Largest(inserted', Min2(max_size_, Size(inserted')))
       /\ PushWhenLegacyFull =>
              LET least == c_[MinElement(c_)]
              IN  IF arg' > least
                  THEN AddElement(MultisetOf(c_), arg') =
                           AddElement(MultisetOf(m_Heap'), least)
                  ELSE m_Heap' = c_]_vars

\* Six values, all three kinds among them, were pushed into a legacy queue
\* of max_size 3, the last of them refused or replacing a smaller one.
C32_Witness ==
    /\ LegacyStreamed /\ op = "push"
    /\ max_size_ = 3
    /\ Size(inserted) = 6
    /\ \A v \in 1 .. 3 : inserted[v] > 0

\* v is a largest element of the sequence s.
IsMaximumOf(v, s) ==
    /\ \E i \in 1 .. Len(s) : s[i] = v
    /\ \A i \in 1 .. Len(s) : s[i] <= v

NonIncreasingBuiltin(s) == \A i \in 1 .. Len(s) - 1 : s[i + 1] <= s[i]

(***************************************************************************)
(* C38.  Whenever a legacy queue is not empty, top() is a largest stored   *)
(* element and pop() removes exactly one largest element; a run of pops    *)
(* down to size 0 therefore removes the stored elements in non-increasing  *)
(* order.                                                                  *)
(***************************************************************************)
C38_LegacyTopIsMaximum ==
    [][/\ (IsLegacy /\ c_ # << >>) => IsMaximumOf(c_[1], c_)
       /\ (IsLegacy /\ c_ # << >> /\ op' = "top") =>
              ~thrown' /\ IsMaximumOf(returned', c_) /\ m_Heap' = c_
       /\ (IsLegacy /\ c_ # << >> /\ op' = "pop") =>
              /\ ~thrown'
              /\ MultisetOf(c_) = AddElement(MultisetOf(m_Heap'), c_[1])
       /\ (IsLegacy /\ phase' = "drainMax") =>
              /\ NonIncreasingBuiltin(removed')
              /\ m_Heap' = << >> => MultisetOf(removed') = inserted']_vars

\* A full legacy queue of max_size 4 was emptied by four pops that removed
\* at least two different values.
C38_Witness ==
    /\ IsLegacy /\ op = "pop" /\ phase = "drainMax"
    /\ max_size_ = 4
    /\ c_ = << >>
    /\ Len(removed) = 4
    /\ Cardinality(DistinctValues(removed)) >= 2

(***************************************************************************)
(* C40.  On a legacy queue constructed with max_size 0, push(x) returns,   *)
(* leaves the queue empty and dereferences no position of the empty        *)
(* vector.                                                                 *)
(***************************************************************************)
C40_LegacyZeroPushIsSafe ==
    [][(IsLegacy /\ max_size_ = 0 /\ op' = "push") =>
           /\ ~thrown'
           /\ m_Heap' = << >>
           /\ phase' # "undefined"]_vars

(***************************************************************************)
(* Trickle-down and bubble-up call by call.  A frame is one invocation of  *)
(* TrickleDownImplementation or BubbleUpImplementation: its argument, its  *)
(* template argument and the array it finds.                               *)
(***************************************************************************)
Frame(NodeOffset, LevelOrdering, h) ==
    [NodeOffset |-> NodeOffset, LevelOrdering |-> LevelOrdering, heap |-> h]

\* The frames of TrickleDownImplementation<LevelOrdering>(SubTreeOffset),
\* the first call and every recursive call after it.
RECURSIVE TrickleDownImplementationFrames(_, _, _)
TrickleDownImplementationFrames(h, SubTreeOffset, LevelOrdering) ==
    LET InvertRelationalOperator == (LevelOrdering = "Maximum")
        ExtremumOffset ==
            FindExtremumOffset(h, InvertRelationalOperator,
                               DescendentOffsets(SubTreeOffset), 1,
                               GetLeftChildOffset(SubTreeOffset))
        frame == Frame(SubTreeOffset, LevelOrdering, h)
    IN  IF ~IsLeftChildExist(h, SubTreeOffset) THEN <<frame>>
        ELSE IF GetGrandParentOffset(ExtremumOffset) = SubTreeOffset
             THEN <<frame>> \o
                  TrickleDownImplementationFrames(
                      TrickleGrandChildStep(h, SubTreeOffset, ExtremumOffset,
                                            InvertRelationalOperator),
                      ExtremumOffset, LevelOrdering)
             ELSE <<frame>>

TrickleDownFrames(h, SubTreeOffset) ==
    IF IsMinimumLevel(h, SubTreeOffset)
    THEN TrickleDownImplementationFrames(h, SubTreeOffset, "Minimum")
    ELSE TrickleDownImplementationFrames(h, SubTreeOffset, "Maximum")

\* The offsets one invocation of TrickleDownImplementation hands to
\* GetValue, the recursive call left out.
TrickleDownImplementationTouched(frame) ==
    LET h == frame.heap
        SubTreeOffset == frame.NodeOffset
        InvertRelationalOperator == (frame.LevelOrdering = "Maximum")
        Descendents == DescendentOffsets(SubTreeOffset)
        ExtremumOffset ==
            FindExtremumOffset(h, InvertRelationalOperator, Descendents, 1,
                               GetLeftChildOffset(SubTreeOffset))
    IN  IF ~IsLeftChildExist(h, SubTreeOffset) THEN {}
        ELSE {Descendents[k] : k \in {j \in 1 .. 6 : IsValidNode(h, Descendents[j])}}
             \cup {ExtremumOffset, SubTreeOffset}
             \cup (IF /\ GetGrandParentOffset(ExtremumOffset) = SubTreeOffset
                      /\ LessThan(InvertRelationalOperator,
                                  GetValue(h, ExtremumOffset),
                                  GetValue(h, SubTreeOffset))
                   THEN {GetParentOffset(ExtremumOffset)}
                   ELSE {})

\* The offsets TrickleDown(SubTreeOffset) hands to GetValue.
TrickleDownTouched(h, SubTreeOffset) ==
    LET frames == TrickleDownFrames(h, SubTreeOffset)
    IN  UNION {TrickleDownImplementationTouched(frames[k]) : k \in DOMAIN frames}

\* The offset whose element the deletion of the step overwrites.
DeletedOffset ==
    IF op' = "DeleteMinimum" THEN GetRootOffset
    ELSE FindMaximumOffset(m_Heap).value

HeapDeletes ==
    /\ IsHeap
    /\ op' \in {"DeleteMinimum", "DeleteMaximum"}
    /\ ~IsEmpty(m_Heap)

\* The cases in which the extremum lies in the last slot.
ExtremumInLastSlot ==
    \/ op' = "DeleteMinimum" /\ GetSize(m_Heap) = 1
    \/ op' = "DeleteMaximum" /\ GetSize(m_Heap) \in {1, 2}
    \/ /\ op' = "DeleteMaximum" /\ GetSize(m_Heap) = 3
       /\ GreaterThan(FALSE, GetValue(m_Heap, 2), GetValue(m_Heap, 1))

(***************************************************************************)
(* C33.  The extremum a deletion removes lies in the last slot exactly in  *)
(* the cases delete-min with n = 1 and delete-max with n = 1, n = 2, or    *)
(* n = 3 and A[2] > A[1].  Then the deletion returns without an error, the *)
(* trickle-down that follows pop_back hands no offset at or beyond the new *)
(* size to GetValue, and the elements A[0 .. n-2] stay where they were.    *)
(***************************************************************************)
C33_LastSlotDeletion ==
    [][HeapDeletes =>
           /\ ExtremumInLastSlot <=> DeletedOffset = GetLastNodeOffset(m_Heap)
           /\ ExtremumInLastSlot =>
                  /\ ~thrown'
                  /\ m_Heap' = PopBack(m_Heap)
                  /\ \A o \in TrickleDownTouched(PopBack(m_Heap), DeletedOffset) :
                         IsValidNode(m_Heap', o)]_vars

\* The maximum of a heap of two different elements, which is its last
\* element, was deleted.
C33_Witness ==
    /\ IsHeap /\ op = "DeleteMaximum" /\ ~thrown
    /\ Size(inserted) = 2
    /\ Len(removed) = 1
    /\ Len(m_Heap) = 1
    /\ LessThanComparison(m_Heap[1], removed[1])

\* The array after the element at offset i is overwritten by the last one,
\* the last slot is dropped and the order is restored from i.
DeleteAt(h, i) ==
    TrickleDown(PopBack([h EXCEPT ![i + 1] = GetValue(h, GetLastNodeOffset(h))]), i)

\* The offset of the maximum as the statement gives it: 1 if A[1] > A[2],
\* and 2 otherwise, ties included.
RightUnlessLeftGreater(h) ==
    IF GreaterThan(FALSE, GetValue(h, 1), GetValue(h, 2)) THEN 1 ELSE 2

\* The offset of the maximum as FindMaximumOffset gives it: 2 if
\* A[2] > A[1], and 1 otherwise, ties included.
LeftUnlessRightGreater(h) ==
    IF GreaterThan(FALSE, GetValue(h, 2), GetValue(h, 1)) THEN 2 ELSE 1

MaximumOfThreeOrMore(Offset(_)) ==
    (IsHeap /\ GetSize(m_Heap) >= 3) =>
        /\ op' = "FindMaximum" =>
               /\ ~thrown'
               /\ returned' = GetValue(m_Heap, Offset(m_Heap))
               /\ FindMaximumOffset(m_Heap) = Return(Offset(m_Heap))
        /\ op' = "DeleteMaximum" =>
               /\ ~thrown'
               /\ m_Heap' = DeleteAt(m_Heap, Offset(m_Heap))

(***************************************************************************)
(* C34 as stated.  For n >= 3 find-max returns the element at index 1 if   *)
(* A[1] > A[2] and the element at index 2 otherwise, ties included, and    *)
(* delete-max removes the element at that index.                           *)
(***************************************************************************)
C34_MaximumAtTwoOnTie == [][MaximumOfThreeOrMore(RightUnlessLeftGreater)]_vars

(***************************************************************************)
(* C34 amended.  For n >= 3 find-max returns the element at index 2 if     *)
(* A[2] > A[1] and the element at index 1 otherwise, ties included, and    *)
(* delete-max removes the element at that index.                           *)
(***************************************************************************)
C34_MaximumAtOneOnTie == [][MaximumOfThreeOrMore(LeftUnlessRightGreater)]_vars

\* The maximum was deleted from a heap of six elements whose two children
\* of the root were equal, and the array that results is not the one that
\* deleting index 2 would have left.
C34_Witness ==
    /\ IsHeap /\ op = "DeleteMaximum" /\ ~thrown
    /\ ctor = "range" /\ phase = "drainMax"
    /\ Len(removed) = 1 /\ Len(m_Heap) = 5
    /\ \E S \in {T \in [1 .. 6 -> Values] : MultisetOf(T) = inserted} :
          LET h == MinMaxHeapFromRange(S)
          IN  /\ GetValue(h, 1) = GetValue(h, 2)
              /\ m_Heap = DeleteAt(h, 1)
              /\ m_Heap # DeleteAt(h, 2)

\* The extremal candidate among the children and grandchildren the
\* invocation of a frame finds.
FrameExtremumOffset(frame) ==
    FindExtremumOffset(frame.heap, frame.LevelOrdering = "Maximum",
                       DescendentOffsets(frame.NodeOffset), 1,
                       GetLeftChildOffset(frame.NodeOffset))

\* In the frame the candidate is a grandchild that is not strictly better
\* than the root of the sub-tree.
GrandChildNotBetter(frame) ==
    /\ IsLeftChildExist(frame.heap, frame.NodeOffset)
    /\ GetGrandParentOffset(FrameExtremumOffset(frame)) = frame.NodeOffset
    /\ ~LessThan(frame.LevelOrdering = "Maximum",
                 GetValue(frame.heap, FrameExtremumOffset(frame)),
                 GetValue(frame.heap, frame.NodeOffset))

\* Trickle-down stops at every frame of the sequence in which the candidate
\* is a grandchild that is not better: the frame is the last, and the array
\* that results is the one the frame found.
StopsAtGrandChildNotBetter(frames, result) ==
    \A k \in DOMAIN frames :
        GrandChildNotBetter(frames[k]) =>
            /\ k = Len(frames)
            /\ result = frames[k].heap

\* The array and the offset TrickleDown is called with by the deletion of
\* the step.
TrickledAfterDelete ==
    PopBack([m_Heap EXCEPT ![DeletedOffset + 1] =
                               GetValue(m_Heap, GetLastNodeOffset(m_Heap))])

(***************************************************************************)
(* C35.  When, in a trickle-down from r, the extremal candidate m among    *)
(* the children and grandchildren of r is a grandchild and A[m] is not     *)
(* strictly better than A[r], trickle-down stops: there is no call for m   *)
(* and no element of the array changes.  Stated for the trickle-down of    *)
(* every deletion.                                                         *)
(***************************************************************************)
C35_StopsAtGrandChild ==
    [][(HeapDeletes /\ ~thrown') =>
           StopsAtGrandChildNotBetter(
               TrickleDownFrames(TrickledAfterDelete, DeletedOffset),
               m_Heap')]_vars

\* The half of it that concerns the array: from such a frame on no element
\* changes.
NoChangeAtGrandChildNotBetter ==
    [][(HeapDeletes /\ ~thrown') =>
           LET frames == TrickleDownFrames(TrickledAfterDelete, DeletedOffset)
           IN  \A k \in DOMAIN frames :
                   GrandChildNotBetter(frames[k]) => m_Heap' = frames[k].heap]_vars

\* The calls of TrickleDown the constructor's loop makes from SubTreeOffset
\* on: the offset of each call and the array it finds.
RECURSIVE HeapifySubTreesCalls(_, _)
HeapifySubTreesCalls(h, SubTreeOffset) ==
    IF SubTreeOffset < GetRootOffset THEN << >>
    ELSE <<[SubTreeOffset |-> SubTreeOffset, heap |-> h]>> \o
         HeapifySubTreesCalls(TrickleDown(h, SubTreeOffset), SubTreeOffset - 1)

\* The calls of TrickleDown made by MinMaxHeap(First, Last, ...) on S.
MinMaxHeapFromRangeCalls(S) ==
    IF GetSize(S) < 2 THEN << >>
    ELSE HeapifySubTreesCalls(S, GetLastParentOffset(S))

(***************************************************************************)
(* C36.  Construction from a range of n >= 2 elements calls TrickleDown    *)
(* once on each offset from the parent of the last node down to the root,  *)
(* in descending order, and on no other offset; the heap constructed is    *)
(* what these calls leave.  For n < 2 TrickleDown is not called.           *)
(***************************************************************************)
C36_HeapifyOrder ==
    (BuiltFromRange /\ op = "construct") =>
        LET calls == MinMaxHeapFromRangeCalls(arg)
            n == Len(arg)
            LastParent == (n \div 2) - 1
        IN  IF n < 2 THEN calls = << >> /\ m_Heap = arg
            ELSE /\ Len(calls) = LastParent + 1
                 /\ \A k \in DOMAIN calls :
                        calls[k].SubTreeOffset = LastParent - (k - 1)
                 /\ calls[1].heap = arg
                 /\ \A k \in 1 .. Len(calls) - 1 :
                        calls[k + 1].heap =
                            TrickleDown(calls[k].heap, calls[k].SubTreeOffset)
                 /\ m_Heap = TrickleDown(calls[Len(calls)].heap, GetRootOffset)

\* A heap was constructed from six elements, by calls on the offsets 2, 1
\* and 0, of which the last moved the root.
C36_Witness ==
    /\ BuiltFromRange /\ op = "construct"
    /\ Len(arg) = 6
    /\ LET calls == MinMaxHeapFromRangeCalls(arg)
       IN  /\ Len(calls) = 3
           /\ calls[3].heap[1] # m_Heap[1]

\* Mutant of BubbleUpImplementationFrames: the recursion moves to the
\* parent.
RECURSIVE BubbleUpImplementationFramesByParent(_, _, _)
BubbleUpImplementationFramesByParent(h, NodeOffset, LevelOrdering) ==
    LET InvertRelationalOperator == (LevelOrdering = "Maximum")
        p == GetParentOffset(NodeOffset)
        frame == Frame(NodeOffset, LevelOrdering, h)
    IN  IF ~IsParentExist(h, NodeOffset) THEN <<frame>>
        ELSE IF LessThan(InvertRelationalOperator,
                         GetValue(h, NodeOffset), GetValue(h, p))
             THEN <<frame>> \o
                  BubbleUpImplementationFramesByParent(Swap(h, NodeOffset, p), p,
                                                       LevelOrdering)
             ELSE <<frame>>

\* The frames of BubbleUpImplementation<LevelOrdering>(NodeOffset), the
\* first call and every recursive call after it.
RECURSIVE BubbleUpImplementationFrames(_, _, _)
BubbleUpImplementationFrames(h, NodeOffset, LevelOrdering) ==
    LET InvertRelationalOperator == (LevelOrdering = "Maximum")
        g == GetGrandParentOffset(NodeOffset)
        frame == Frame(NodeOffset, LevelOrdering, h)
    IN  IF ~IsGrandParentExist(h, NodeOffset) THEN <<frame>>
        ELSE IF LessThan(InvertRelationalOperator,
                         GetValue(h, NodeOffset), GetValue(h, g))
             THEN <<frame>> \o
                  BubbleUpImplementationFrames(Swap(h, NodeOffset, g), g,
                                               LevelOrdering)
             ELSE <<frame>>

\* The frames of the BubbleUpImplementation call BubbleUp(NodeOffset) makes.
BubbleUpFrames(h, NodeOffset) ==
    LET p == GetParentOffset(NodeOffset)
    IN  IF IsMinimumLevel(h, NodeOffset)
        THEN IF IsParentExist(h, NodeOffset)
                /\ GreaterThan(FALSE, GetValue(h, NodeOffset), GetValue(h, p))
             THEN BubbleUpImplementationFrames(Swap(h, NodeOffset, p), p, "Maximum")
             ELSE BubbleUpImplementationFrames(h, NodeOffset, "Minimum")
        ELSE IF IsParentExist(h, NodeOffset)
                /\ LessThan(FALSE, GetValue(h, NodeOffset), GetValue(h, p))
             THEN BubbleUpImplementationFrames(Swap(h, NodeOffset, p), p, "Minimum")
             ELSE BubbleUpImplementationFrames(h, NodeOffset, "Maximum")

(***************************************************************************)
(* BubbleUp and TrickleDown on heaps several levels deep.  The heap of n   *)
(* elements holds, in the user's order, the rank d + 1 at every node of an *)
(* even depth d and the rank MaxRank - d at every node of an odd depth d,  *)
(* which satisfies the min-max ordering.  TrickleDown is called after the  *)
(* element at some offset was overwritten by any rank, as a deletion and   *)
(* the constructor do; BubbleUp after any rank was appended, as Emplace    *)
(* does.  Each call is made on an array prepared for it, from the state    *)
(* the construction leaves.                                                *)
(***************************************************************************)
MaxDeep == 31

MaxRank == 12

Ranks == 0 .. MaxRank

\* The element of rank r in the user's order.
OfRank(r) == IF m_LessThanComparison = "less" THEN r ELSE MaxRank - r

LevelRank(d) == IF d % 2 = 0 THEN d + 1 ELSE MaxRank - d

DeepHeap(n) == [i \in 1 .. n |-> OfRank(LevelRank(Depth(i - 1)))]

DeepInit ==
    /\ object = "MinMaxHeap"
    /\ MaxPriority = FALSE
    /\ m_LessThanComparison \in {"less", "greater"}
    /\ m_Heap = << >>
    /\ m_MaximumCapacity = 0
    /\ op = "construct"
    /\ arg = << >>
    /\ thrown = FALSE
    /\ returned = 0
    /\ ctor = "any"
    /\ phase = "mixed"
    /\ inserted = NoElements
    /\ removed = << >>

\* TrickleDown(SubTreeOffset) on the array h.
DeepTrickleDown(h, SubTreeOffset) ==
    /\ object = "MinMaxHeap"
    /\ op = "construct"
    /\ m_Heap' = TrickleDown(h, SubTreeOffset)
    /\ op' = "TrickleDown"
    /\ arg' = [heap |-> h, NodeOffset |-> SubTreeOffset]
    /\ thrown' = FALSE /\ returned' = 0
    /\ UNCHANGED <<Instantiation, m_MaximumCapacity, ctor, phase,
                   inserted, removed>>

\* emplace_back(Element) and BubbleUp(GetLastNodeOffset()) on the array h.
DeepBubbleUp(h, Element) ==
    /\ object = "MinMaxHeap"
    /\ op = "construct"
    /\ m_Heap' = BubbleUp(Append(h, Element), GetLastNodeOffset(Append(h, Element)))
    /\ op' = "BubbleUp"
    /\ arg' = [heap |-> Append(h, Element),
               NodeOffset |-> GetLastNodeOffset(Append(h, Element))]
    /\ thrown' = FALSE /\ returned' = 0
    /\ UNCHANGED <<Instantiation, m_MaximumCapacity, ctor, phase,
                   inserted, removed>>

DeepNext ==
    \/ \E n \in 1 .. MaxDeep : \E SubTreeOffset \in 0 .. n - 1 : \E r \in Ranks :
           DeepTrickleDown([DeepHeap(n) EXCEPT ![SubTreeOffset + 1] = OfRank(r)],
                           SubTreeOffset)
    \/ \E n \in 0 .. MaxDeep - 1 : \E r \in Ranks :
           DeepBubbleUp(DeepHeap(n), OfRank(r))

DeepSpec == DeepInit /\ [][DeepNext]_vars

\* The frames of the call the state records.
RecordedFrames ==
    IF op = "TrickleDown" THEN TrickleDownFrames(arg.heap, arg.NodeOffset)
    ELSE BubbleUpFrames(arg.heap, arg.NodeOffset)

\* floor(log2(n)) for n >= 1, by halving.
RECURSIVE FloorLog2Of(_)
FloorLog2Of(n) == IF n <= 1 THEN 0 ELSE 1 + FloorLog2Of(n \div 2)

(***************************************************************************)
(* C37.  Every BubbleUp and every TrickleDown on a heap of n elements      *)
(* returns.  Each recursive call of BubbleUpImplementation is for the      *)
(* grandparent, a strictly smaller offset; each recursive call of          *)
(* TrickleDownImplementation is for a grandchild, a strictly larger valid  *)
(* offset; and there are at most floor(log2 n) recursive calls.            *)
(***************************************************************************)
C37_RecursionBounded ==
    (op \in {"TrickleDown", "BubbleUp"}) =>
        LET frames == RecordedFrames
            n == Len(arg.heap)
        IN  /\ Len(m_Heap) = n
            /\ \A r \in Ranks : Occurrences(m_Heap, r) = Occurrences(arg.heap, r)
            /\ Len(frames) - 1 <= FloorLog2Of(n)
            /\ \A k \in 1 .. Len(frames) - 1 :
                   /\ IsValidNode(arg.heap, frames[k + 1].NodeOffset)
                   /\ IF op = "BubbleUp"
                      THEN /\ frames[k + 1].NodeOffset < frames[k].NodeOffset
                           /\ frames[k + 1].NodeOffset =
                                  GetGrandParentOffset(frames[k].NodeOffset)
                      ELSE /\ frames[k + 1].NodeOffset > frames[k].NodeOffset
                           /\ GetGrandParentOffset(frames[k + 1].NodeOffset) =
                                  frames[k].NodeOffset

\* A bubble-up made two recursive calls.
C37_Witness ==
    /\ op = "BubbleUp"
    /\ Len(RecordedFrames) = 3
    /\ m_Heap # arg.heap

\* A trickle-down from the root made two recursive calls.
DeepTrickleDownReached ==
    /\ op = "TrickleDown"
    /\ arg.NodeOffset = 0
    /\ Len(RecordedFrames) = 3
    /\ m_Heap # arg.heap

\* The offset i and the offsets two, four, ... levels above it.
RECURSIVE EveryOtherAncestor(_)
EveryOtherAncestor(i) ==
    IF i < 0 THEN {}
    ELSE {i} \cup (IF i <= 2 THEN {} ELSE EveryOtherAncestor(GetGrandParentOffset(i)))

\* The offsets whose element differs between the arrays a and b, the
\* offsets only one of them has included.
Differing(a, b) ==
    {i \in 0 .. (IF Len(a) > Len(b) THEN Len(a) ELSE Len(b)) - 1 :
        ~(i < Len(a) /\ i < Len(b) /\ a[i + 1] = b[i + 1])}

(***************************************************************************)
(* C39.  Insert(x) on a heap of n elements changes the array only on the   *)
(* path from the new leaf to the root: every offset other than n and the   *)
(* ancestors of n holds the same element before and after.  The offsets    *)
(* that change are n and the offsets two levels apart above it, or n, its  *)
(* parent and the offsets two levels apart above the parent.               *)
(***************************************************************************)
C39_InsertChangesRootPath ==
    [][(IsHeap /\ op' = "Insert") =>
           LET n == Len(m_Heap)
               changed == Differing(m_Heap, m_Heap')
           IN  /\ Len(m_Heap') = n + 1
               /\ \A i \in 0 .. n - 1 :
                      ~IsDescendant(n, i) => m_Heap'[i + 1] = m_Heap[i + 1]
               /\ \/ changed \subseteq EveryOtherAncestor(n)
                  \/ changed \subseteq
                         {n} \cup EveryOtherAncestor(GetParentOffset(n))]_vars

\* An insert into a heap of seven elements brought an element smaller than
\* all of them: it went from offset 7 through offset 3 to the root.
C39_Witness ==
    /\ IsHeap /\ op = "Insert" /\ ~thrown
    /\ Len(m_Heap) = 8
    /\ m_Heap[1] = arg
    /\ \A i \in 2 .. 8 : LessThanComparison(arg, m_Heap[i])

====
